---- MODULE Spec2Model ----
(***************************************************************************)
(* Model of the lease field-derivation and quality-gating core of          *)
(* src/app/main.py: parse_field, parse_gemini_response, compute_layer2 and *)
(* run_quality_gate, and of the request handler analyze_lease that runs    *)
(* them between its collaborators.                                         *)
(*                                                                         *)
(* Python values are records of one shape [t, n, d, s, l]:                 *)
(*   t  the Python type ("None", "bool", "int", "float", "Decimal",        *)
(*      "date", "str", "list"; "absent" marks a missing dict key),         *)
(*   n/d the number as a fraction in lowest terms (bool: n in {0,1};       *)
(*      date: n is the proleptic Gregorian ordinal, d = 1),                *)
(*   s  the characters of a str, l the elements of a list of str.          *)
(* Floats and Decimals are exact fractions: binary rounding of floats and  *)
(* the 28-digit rounding of Decimal division are not modelled.  Numerals   *)
(* with an exponent, "inf"/"nan" spellings and underscores are not among   *)
(* the inputs, nor are ISO dates written other than YYYY-MM-DD.            *)
(*                                                                         *)
(* An intermediate result of the code (a local variable) is an argument of *)
(* the operator that models the statements after it.                       *)
(***************************************************************************)
EXTENDS Integers, Sequences, FiniteSets, TLC

VARIABLES pc, raw, layer1, confidence_scores, reasoning_flags, layer2,
          requires_review, reasons, today, exc, hash_order,
          pf_args, pf_result, l2_first

\* the request handler: what its collaborators returned and were given, the
\* steps it has started, its result and response, the background tasks and
\* the outcome of the insert; gate_first is the result of an earlier
\* evaluation of the quality gate
VARIABLES raw_gemini, claude_output, claude_args, pdf_args, pdf_report,
          result, response, tasks, db, supabase_url, steps, gate_first

request == <<raw_gemini, claude_output, claude_args, pdf_args, pdf_report,
             result, response, tasks, db, supabase_url, steps>>

orch == <<request, gate_first>>

vars == <<pc, raw, layer1, confidence_scores, reasoning_flags, layer2,
          requires_review, reasons, today, exc, hash_order,
          pf_args, pf_result, l2_first, orch>>

(***************************************************************************)
(* Python values                                                           *)
(***************************************************************************)
Abs(x) == IF x < 0 THEN -x ELSE x

RECURSIVE GCD(_, _)
GCD(a, b) == IF b = 0 THEN a ELSE GCD(b, a % b)

Val(tag, num, den, str, lst) == [t |-> tag, n |-> num, d |-> den, s |-> str, l |-> lst]

NumReduced(tag, num, den, g) == Val(tag, num \div g, den \div g, <<>>, <<>>)

\* a number of Python type tag with value num/den (den > 0), in lowest terms
Num(tag, num, den) == NumReduced(tag, num, den, GCD(Abs(num), den))

None == Val("None", 0, 1, <<>>, <<>>)
Absent == Val("absent", 0, 1, <<>>, <<>>)
PyBool(b) == Val("bool", IF b THEN 1 ELSE 0, 1, <<>>, <<>>)
PyInt(i) == Val("int", i, 1, <<>>, <<>>)
PyFloat(num, den) == Num("float", num, den)
PyDecimal(num, den) == Num("Decimal", num, den)
PyDate(ord) == Val("date", ord, 1, <<>>, <<>>)
PyStr(chars) == Val("str", 0, 1, chars, <<>>)
PyList(elems) == Val("list", 0, 1, <<>>, elems)

IsNumber(v) == v.t \in {"bool", "int", "float", "Decimal"}

\* bool(v)
Truthy(v) ==
    CASE v.t \in {"None", "absent"} -> FALSE
      [] IsNumber(v) -> v.n # 0
      [] v.t = "str" -> v.s # <<>>
      [] v.t = "list" -> v.l # <<>>
      [] OTHER -> TRUE

(***************************************************************************)
(* Characters and numerals                                                 *)
(***************************************************************************)
Digits == <<"0", "1", "2", "3", "4", "5", "6", "7", "8", "9">>
Upper == <<"A", "B", "C", "D", "E", "F", "G", "H", "I", "J", "K", "L", "M",
           "N", "O", "P", "Q", "R", "S", "T", "U", "V", "W", "X", "Y", "Z">>
Lower == <<"a", "b", "c", "d", "e", "f", "g", "h", "i", "j", "k", "l", "m",
           "n", "o", "p", "q", "r", "s", "t", "u", "v", "w", "x", "y", "z">>

IsDigit(c) == \E i \in 1..10 : Digits[i] = c
DigitVal(c) == (CHOOSE i \in 1..10 : Digits[i] = c) - 1
AllDigits(chars) == \A i \in 1..Len(chars) : IsDigit(chars[i])

\* str.lower() on one character
LowerChar(c) == IF \E i \in 1..26 : Upper[i] = c
                THEN Lower[CHOOSE i \in 1..26 : Upper[i] = c]
                ELSE c
StrLower(chars) == [i \in 1..Len(chars) |-> LowerChar(chars[i])]

\* str.replace(c, "")
RECURSIVE Remove(_, _)
Remove(chars, c) ==
    IF chars = <<>> THEN <<>>
    ELSE IF Head(chars) = c THEN Remove(Tail(chars), c)
    ELSE <<Head(chars)>> \o Remove(Tail(chars), c)

RECURSIVE LStrip(_)
LStrip(chars) ==
    IF chars # <<>> /\ Head(chars) = " " THEN LStrip(Tail(chars)) ELSE chars

RECURSIVE RStrip(_)
RStrip(chars) ==
    IF chars # <<>> /\ chars[Len(chars)] = " "
    THEN RStrip(SubSeq(chars, 1, Len(chars) - 1)) ELSE chars

\* str.strip()
Strip(chars) == RStrip(LStrip(chars))

\* str.split(","): the pieces between commas, empty pieces included
RECURSIVE SplitComma(_, _)
SplitComma(chars, cur) ==
    IF chars = <<>> THEN <<cur>>
    ELSE IF Head(chars) = "," THEN <<cur>> \o SplitComma(Tail(chars), <<>>)
    ELSE SplitComma(Tail(chars), Append(cur, Head(chars)))

RECURSIVE DigitsValue(_, _)
DigitsValue(chars, acc) ==
    IF chars = <<>> THEN acc
    ELSE DigitsValue(Tail(chars), 10 * acc + DigitVal(Head(chars)))

RECURSIVE Pow10(_)
Pow10(k) == IF k = 0 THEN 1 ELSE 10 * Pow10(k - 1)

\* the position of the first c in chars, 0 if there is none
IndexOf(chars, c) ==
    IF \E i \in 1..Len(chars) : chars[i] = c
    THEN CHOOSE i \in 1..Len(chars) : chars[i] = c /\ \A j \in 1..(i - 1) : chars[j] # c
    ELSE 0

\* the decimal numeral grammar shared by float() and Decimal():
\* [sign] digits [. [digits]] | [sign] . digits, surrounding blanks ignored
NumeralOf(neg, whole, frac) ==
    IF AllDigits(whole) /\ AllDigits(frac) /\ Len(whole) + Len(frac) > 0
    THEN [ok |-> TRUE,
          n |-> (IF neg THEN -1 ELSE 1) * DigitsValue(whole \o frac, 0),
          d |-> Pow10(Len(frac))]
    ELSE [ok |-> FALSE, n |-> 0, d |-> 1]

SplitAtPoint(neg, mag, dot) ==
    NumeralOf(neg,
              IF dot = 0 THEN mag ELSE SubSeq(mag, 1, dot - 1),
              IF dot = 0 THEN <<>> ELSE SubSeq(mag, dot + 1, Len(mag)))

UnsignedNumeral(neg, mag) == SplitAtPoint(neg, mag, IndexOf(mag, "."))

SignedNumeral(body) ==
    UnsignedNumeral(body # <<>> /\ Head(body) = "-",
                    IF body # <<>> /\ Head(body) \in {"-", "+"} THEN Tail(body) ELSE body)

ParseNumeral(chars) == SignedNumeral(Strip(chars))

RECURSIVE NatChars(_)
NatChars(k) == IF k < 10 THEN <<Digits[k + 1]>>
               ELSE NatChars(k \div 10) \o <<Digits[(k % 10) + 1]>>

\* str(i) for an int
IntChars(i) == IF i < 0 THEN <<"-">> \o NatChars(-i) ELSE NatChars(i)

FractionChars(f) ==
    IF f % 10 = 0 THEN <<Digits[(f \div 10) + 1]>>
    ELSE <<Digits[(f \div 10) + 1], Digits[(f % 10) + 1]>>

HundredthsChars(neg, h) ==
    (IF neg THEN <<"-">> ELSE <<>>) \o NatChars(h \div 100) \o <<".">>
    \o FractionChars(h % 100)

\* repr of a float with at most two decimals: 1500.0, 0.5, 12.25
FloatChars(v) == HundredthsChars(v.n < 0, (Abs(v.n) * 100) \div v.d)

RECURSIVE ListReprTail(_)
ListReprTail(elems) ==
    IF elems = <<>> THEN <<>>
    ELSE (<<"'">> \o Head(elems) \o <<"'">>)
         \o (IF Len(elems) > 1 THEN <<",", " ">> ELSE <<>>)
         \o ListReprTail(Tail(elems))

\* str(v) for the values a JSON document can carry
PyStrOf(v) ==
    CASE v.t = "str" -> v.s
      [] v.t = "int" -> IntChars(v.n)
      [] v.t = "float" -> FloatChars(v)
      [] v.t = "bool" -> IF v.n = 1 THEN <<"T", "r", "u", "e">>
                         ELSE <<"F", "a", "l", "s", "e">>
      [] v.t = "list" -> <<"[">> \o ListReprTail(v.l) \o <<"]">>
      [] OTHER -> <<"N", "o", "n", "e">>

Ok(v) == [exc |-> "none", v |-> v]
Err(e) == [exc |-> e, v |-> None]

FloatOfNumeral(p) == IF p.ok THEN Ok(Num("float", p.n, p.d)) ELSE Err("ValueError")

\* float(v): a record [exc, v]
FloatOf(v) ==
    CASE IsNumber(v) -> Ok(Num("float", v.n, v.d))
      [] v.t = "str" -> FloatOfNumeral(ParseNumeral(v.s))
      [] OTHER -> Err("TypeError")

(***************************************************************************)
(* Calendar dates                                                          *)
(***************************************************************************)
MINYEAR == 1
MAXYEAR == 9999
MaxOrdinal == 3652059

IsLeap(y) == y % 4 = 0 /\ (y % 100 # 0 \/ y % 400 = 0)
DaysInMonth(y, m) ==
    IF m = 2 THEN (IF IsLeap(y) THEN 29 ELSE 28)
    ELSE IF m \in {4, 6, 9, 11} THEN 30 ELSE 31
DaysBeforeYear(y) ==
    (y - 1) * 365 + ((y - 1) \div 4) - ((y - 1) \div 100) + ((y - 1) \div 400)
RECURSIVE DaysBeforeMonth(_, _)
DaysBeforeMonth(y, m) ==
    IF m = 1 THEN 0 ELSE DaysBeforeMonth(y, m - 1) + DaysInMonth(y, m - 1)
Ordinal(y, m, dd) == DaysBeforeYear(y) + DaysBeforeMonth(y, m) + dd

IsoShaped(chars) ==
    /\ Len(chars) = 10
    /\ chars[5] = "-" /\ chars[8] = "-"
    /\ AllDigits(SubSeq(chars, 1, 4))
    /\ AllDigits(SubSeq(chars, 6, 7))
    /\ AllDigits(SubSeq(chars, 9, 10))

IsoDateOf(shaped, y, m, dd) ==
    IF shaped /\ y >= MINYEAR /\ y <= MAXYEAR /\ m >= 1 /\ m <= 12
       /\ dd >= 1 /\ dd <= DaysInMonth(y, m)
    THEN [ok |-> TRUE, ord |-> Ordinal(y, m, dd)]
    ELSE [ok |-> FALSE, ord |-> 0]

\* date.fromisoformat on YYYY-MM-DD
ParseIsoDate(chars) ==
    IsoDateOf(IsoShaped(chars),
              DigitsValue(SubSeq(chars, 1, 4), 0),
              DigitsValue(SubSeq(chars, 6, 7), 0),
              DigitsValue(SubSeq(chars, 9, 10), 0))

(***************************************************************************)
(* parse_field                                                             *)
(***************************************************************************)
\* a JSON object {"value": .., "confidence": .., "flag_for_reasoning": ..};
\* a key the object does not carry is Absent
RawDict(value, confidence, flag) ==
    [t |-> "dict", value |-> value, confidence |-> confidence,
     flag_for_reasoning |-> flag]

\* dict.get(key, default) on a field of a RawDict
DictGet(entry, default) == IF entry.t = "absent" THEN default ELSE entry

Returned(value, confidence, flag) ==
    [exc |-> "none", value |-> value, confidence |-> confidence, flag |-> flag]
Raised(e) ==
    [exc |-> e, value |-> None, confidence |-> None, flag |-> FALSE]

\* int(x) of a fraction: truncation toward zero
Trunc(num, den) == IF num < 0 THEN -((-num) \div den) ELSE num \div den

\* try: ... except: value = None
DecimalOrNone(p) == IF p.ok THEN PyDecimal(p.n, p.d) ELSE None
IntOrNone(p) == IF p.ok THEN PyInt(Trunc(p.n, p.d)) ELSE None
FloatOrNone(p) == IF p.ok THEN PyFloat(p.n, p.d) ELSE None
DateOrNone(p) == IF p.ok THEN PyDate(p.ord) ELSE None

CoerceDecimal(value) ==
    DecimalOrNone(ParseNumeral(Strip(Remove(Remove(PyStrOf(value), ","), "$"))))

CoerceInt(value) == IntOrNone(ParseNumeral(PyStrOf(value)))

CoerceFloat(value) == FloatOrNone(ParseNumeral(PyStrOf(value)))

\* mutant: a date that does not parse is kept as it came
CoerceDateKeep(value) ==
    IF ParseIsoDate(PyStrOf(value)).ok
    THEN PyDate(ParseIsoDate(PyStrOf(value)).ord) ELSE value

CoerceDate(value) == DateOrNone(ParseIsoDate(PyStrOf(value)))

TrueWords == {<<"t", "r", "u", "e">>, <<"y", "e", "s">>, <<"1">>}

CoerceBool(value) ==
    IF value.t = "bool" THEN value
    ELSE IF value.t = "str" THEN PyBool(StrLower(value.s) \in TrueWords)
    ELSE PyBool(Truthy(value))

RECURSIVE StripDropEmpty(_)
StripDropEmpty(pieces) ==
    IF pieces = <<>> THEN <<>>
    ELSE (IF Strip(Head(pieces)) # <<>> THEN <<Strip(Head(pieces))>> ELSE <<>>)
         \o StripDropEmpty(Tail(pieces))

CoerceList(value) ==
    IF value.t = "list" THEN value
    ELSE PyList(StripDropEmpty(SplitComma(PyStrOf(value), <<>>)))

Coerce(value, field_type) ==
    CASE field_type = "decimal" -> CoerceDecimal(value)
      [] field_type = "int" -> CoerceInt(value)
      [] field_type = "float" -> CoerceFloat(value)
      [] field_type = "date" -> CoerceDate(value)
      [] field_type = "bool" -> CoerceBool(value)
      [] field_type = "list" -> CoerceList(value)
      [] OTHER -> value

\* mutant: a bare scalar treated as {"value": scalar} and coerced
NotADictCoerced(raw_field, field_type) ==
    Returned(Coerce(raw_field, field_type), PyFloat(1, 2), FALSE)

NotADict(raw_field, field_type) == Returned(raw_field, PyFloat(1, 2), FALSE)

\* mutant: a null value answered with the defaults instead of what was carried
NullValueDefaults(confidence, flag) == Returned(None, PyFloat(0, 1), FALSE)

NullValue(confidence, flag) == Returned(None, confidence, flag)

\* lines 223-247, with value, confidence and flag as read at lines 223-225
ParseDict(value, conf, flag, field_type) ==
    IF conf.exc # "none" THEN Raised(conf.exc)
    ELSE IF value.t = "None" THEN NullValue(conf.v, flag)
    ELSE Returned(Coerce(value, field_type), conf.v, flag)

parse_field(raw_field, field_type) ==
    IF raw_field.t # "dict" THEN NotADict(raw_field, field_type)
    ELSE ParseDict(DictGet(raw_field.value, None),
                   FloatOf(DictGet(raw_field.confidence, PyFloat(0, 1))),
                   Truthy(DictGet(raw_field.flag_for_reasoning, PyBool(FALSE))),
                   field_type)

(***************************************************************************)
(* parse_gemini_response                                                   *)
(***************************************************************************)
FIELD_MAP ==
    <<
       <<"tenant_full_name", "str">>,
       <<"landlord_full_name", "str">>,
       <<"landlord_entity_type", "str">>,
       <<"property_address", "str">>,
       <<"property_city", "str">>,
       <<"property_state", "str">>,
       <<"property_zip", "str">>,
       <<"unit_number", "str">>,
       <<"property_type", "str">>,
       <<"square_footage", "float">>,
       <<"furnished", "bool">>,
       <<"monthly_rent", "decimal">>,
       <<"number_of_tenants", "int">>,
       <<"security_deposit", "decimal">>,
       <<"last_month_deposit", "decimal">>,
       <<"pet_deposit", "decimal">>,
       <<"other_fees_monthly", "decimal">>,
       <<"late_fee_structure", "str">>,
       <<"late_fee_initial_amount", "decimal">>,
       <<"late_fee_initial_pct", "float">>,
       <<"late_fee_grace_days", "int">>,
       <<"late_fee_escalates", "bool">>,
       <<"nsf_fee", "decimal">>,
       <<"lease_type", "str">>,
       <<"lease_start_date", "date">>,
       <<"lease_end_date", "date">>,
       <<"rent_due_day", "int">>,
       <<"renewal_notice_days_required", "int">>,
       <<"renewal_deadline_explicit", "date">>,
       <<"holdover_rent_amount", "decimal">>,
       <<"early_termination_fee", "decimal">>,
       <<"early_termination_notice_days", "int">>,
       <<"landlord_entry_notice_hours", "int">>,
       <<"landlord_entry_clause_verbatim", "str">>,
       <<"utilities_tenant_responsible", "list">>,
       <<"utilities_landlord_responsible", "list">>,
       <<"all_utilities_tenant", "bool">>,
       <<"tenant_maintenance_obligations", "str">>,
       <<"repair_deduction_multiplier", "float">>,
       <<"parental_guarantee_required", "bool">>,
       <<"joint_several_liability", "bool">>,
       <<"mandatory_arbitration", "bool">>,
       <<"pets_allowed", "bool">>,
       <<"subletting_allowed", "bool">>,
       <<"smoking_prohibited", "bool">>,
       <<"guest_policy", "str">>,
       <<"police_violation_fee", "decimal">>,
       <<"attorneys_fees_clause", "bool">>,
       <<"lease_signed_date", "date">>,
       <<"lease_document_pages", "int">> >>

FieldNames == { FIELD_MAP[i][1] : i \in 1..Len(FIELD_MAP) }

\* dicts are functions; the empty dict is the empty function
EmptyDict == <<>>
Get(dict, key, default) == IF key \in DOMAIN dict THEN dict[key] ELSE default

\* the raw record is an ordered dict: a sequence of <<key, entry>>, keys distinct
HasKey(r, key) == \E i \in 1..Len(r) : r[i][1] = key
RawGet(r, key, default) ==
    IF HasKey(r, key) THEN r[CHOOSE i \in 1..Len(r) : r[i][1] = key][2] ELSE default

\* mutant: raw.get(field) with no default
DefaultRawFieldNone == None

DefaultRawField == RawDict(None, PyFloat(0, 1), Absent)

TypeOfField(key) ==
    IF \E j \in 1..Len(FIELD_MAP) : FIELD_MAP[j][1] = key
    THEN FIELD_MAP[CHOOSE j \in 1..Len(FIELD_MAP) : FIELD_MAP[j][1] = key][2]
    ELSE "str"

\* mutant: the loop runs over the keys of the raw record
IterationOfRaw(r) == [i \in 1..Len(r) |-> <<r[i][1], TypeOfField(r[i][1])>>]

\* the <<field, ftype>> pairs the loop visits, in order
Iteration(r) == FIELD_MAP

\* mutant: every visited field is appended
AppendFlagAlways(flags, field, flag) == Append(flags, field)

AppendFlag(flags, field, flag) == IF flag THEN Append(flags, field) ELSE flags

\* the appends of the loop for the fields lo..hi, in order (the two halves are
\* joined, which keeps the evaluation shallow)
RECURSIVE CollectFlags(_, _, _, _)
CollectFlags(items, parsed, lo, hi) ==
    IF lo > hi THEN <<>>
    ELSE IF lo = hi THEN AppendFlag(<<>>, items[lo][1], parsed[lo].flag)
    ELSE CollectFlags(items, parsed, lo, (lo + hi) \div 2)
         \o CollectFlags(items, parsed, (lo + hi) \div 2 + 1, hi)

Parsed(l1, conf, flags) ==
    [exc |-> "none", layer1 |-> l1, confidence_scores |-> conf, reasoning_flags |-> flags]
ParseRaised(e) ==
    [exc |-> e, layer1 |-> EmptyDict, confidence_scores |-> EmptyDict,
     reasoning_flags |-> <<>>]

PositionOf(items, f) == CHOOSE i \in 1..Len(items) : items[i][1] = f
NamesOf(items) == { items[i][1] : i \in 1..Len(items) }
FirstOf(failed) == CHOOSE i \in failed : \A j \in failed : i <= j

\* what the loop leaves behind; the first field whose parse_field raises ends it
Assemble(items, parsed, failed) ==
    IF failed # {} THEN ParseRaised(parsed[FirstOf(failed)].exc)
    ELSE Parsed([f \in NamesOf(items) |-> parsed[PositionOf(items, f)].value],
                [f \in NamesOf(items) |-> parsed[PositionOf(items, f)].confidence],
                CollectFlags(items, parsed, 1, Len(items)))

FailedAt(parsed) == { i \in DOMAIN parsed : parsed[i].exc # "none" }

ParseItems(items, parsed) == Assemble(items, parsed, FailedAt(parsed))

\* lines 312-314 for every visited field
ParseEach(r, items) ==
    [i \in 1..Len(items) |->
        parse_field(RawGet(r, items[i][1], DefaultRawField), items[i][2])]

ParseLoop(r, items) == ParseItems(items, ParseEach(r, items))

parse_gemini_response(r) ==
    IF r = <<>> THEN Parsed(EmptyDict, EmptyDict, <<>>)
    ELSE ParseLoop(r, Iteration(r))

(***************************************************************************)
(* Python arithmetic on the values above: a record [exc, v]                *)
(***************************************************************************)
\* Decimal and float do not mix; bool counts as int
Compatible(a, b) ==
    IsNumber(a) /\ IsNumber(b) /\ {a.t, b.t} # {"Decimal", "float"}
ArithTag(a, b) ==
    IF "Decimal" \in {a.t, b.t} THEN "Decimal"
    ELSE IF "float" \in {a.t, b.t} THEN "float" ELSE "int"

RECURSIVE Repeat(_, _)
Repeat(seq, k) == IF k <= 0 THEN <<>> ELSE seq \o Repeat(seq, k - 1)

\* a + b
Add(a, b) ==
    IF Compatible(a, b) THEN Ok(Num(ArithTag(a, b), a.n * b.d + b.n * a.d, a.d * b.d))
    ELSE IF a.t = "str" /\ b.t = "str" THEN Ok(PyStr(a.s \o b.s))
    ELSE IF a.t = "list" /\ b.t = "list" THEN Ok(PyList(a.l \o b.l))
    ELSE Err("TypeError")

\* a - b
Sub(a, b) ==
    IF Compatible(a, b) THEN Ok(Num(ArithTag(a, b), a.n * b.d - b.n * a.d, a.d * b.d))
    ELSE Err("TypeError")

\* a * b
Mul(a, b) ==
    IF Compatible(a, b) THEN Ok(Num(ArithTag(a, b), a.n * b.n, a.d * b.d))
    ELSE IF a.t = "str" /\ b.t \in {"int", "bool"} THEN Ok(PyStr(Repeat(a.s, b.n)))
    ELSE IF a.t = "list" /\ b.t \in {"int", "bool"} THEN Ok(PyList(Repeat(a.l, b.n)))
    ELSE Err("TypeError")

Quotient(tag, num, den) ==
    IF den < 0 THEN Num(tag, -num, -den) ELSE Num(tag, num, den)

\* a / b (true division)
Div(a, b) ==
    IF ~Compatible(a, b) THEN Err("TypeError")
    ELSE IF b.n = 0 THEN Err("ZeroDivisionError")
    ELSE Ok(Quotient(IF "Decimal" \in {a.t, b.t} THEN "Decimal" ELSE "float",
                     a.n * b.d, a.d * b.n))

\* a > k and a < k for an int k: a record [exc, b]
Gt(a, k) ==
    IF IsNumber(a) THEN [exc |-> "none", b |-> a.n > k * a.d]
    ELSE [exc |-> "TypeError", b |-> FALSE]
Lt(a, k) ==
    IF IsNumber(a) THEN [exc |-> "none", b |-> a.n < k * a.d]
    ELSE [exc |-> "TypeError", b |-> FALSE]

\* x or default
OrElse(x, default) == IF Truthy(x) THEN x ELSE default

\* floor of num/den, den > 0
Floor(num, den) == num \div den

\* mutant: the quotient cut to the integer below it
RoundDown(num, den) == Floor(num, den)

\* round(num/den) to an int, ties to even
RoundHalfEven(num, den) ==
    IF (2 * num + den) % (2 * den) = 0 /\ Floor(2 * num + den, 2 * den) % 2 # 0
    THEN Floor(2 * num + den, 2 * den) - 1
    ELSE Floor(2 * num + den, 2 * den)

(***************************************************************************)
(* compute_layer2                                                          *)
(***************************************************************************)
DAYS_PER_MONTH_X100 == 3044
MaxTimedeltaDays == 999999999

Decimal0 == PyDecimal(0, 1)

Put(l2, key, v) == (key :> v) @@ l2

\* the state of the function body: the exception raised, if any, and l2 so far
Going(l2) == [exc |-> "none", l2 |-> l2]
Stop(e) == [exc |-> e, l2 |-> EmptyDict]

\* l2[key] = r, where computing r may have raised
StoreOrStop(l2, key, r) ==
    IF r.exc # "none" THEN Stop(r.exc) ELSE Going(Put(l2, key, r.v))

\* lines 329-334
Rent(l1) == OrElse(Get(l1, "monthly_rent", None), Decimal0)
Sec(l1) == OrElse(Get(l1, "security_deposit", None), Decimal0)
Last(l1) == OrElse(Get(l1, "last_month_deposit", None), Decimal0)
Pet(l1) == OrElse(Get(l1, "pet_deposit", None), Decimal0)
Fees(l1) == OrElse(Get(l1, "other_fees_monthly", None), Decimal0)
NumTenants(l1) == OrElse(Get(l1, "number_of_tenants", None), PyInt(1))

\* r + x, where computing r may have raised
AddTo(r, x) == IF r.exc # "none" THEN r ELSE Add(r.v, x)

\* mutant: the pet deposit left out of the upfront cost
UpfrontSumNoPet(rent, sec, last, pet) == AddTo(Add(rent, sec), last)

\* line 337: rent + sec + last + pet
UpfrontSum(rent, sec, last, pet) == AddTo(AddTo(Add(rent, sec), last), pet)

StoreAlways(l2, eff, up, ann) ==
    IF eff.exc # "none" THEN Stop(eff.exc)
    ELSE IF up.exc # "none" THEN Stop(up.exc)
    ELSE IF ann.exc # "none" THEN Stop(ann.exc)
    ELSE Going(Put(Put(Put(l2, "effective_monthly_cost", eff.v),
                       "total_upfront_cost", up.v), "annualized_rent", ann.v))

\* lines 336-338
AlwaysComputed(l1, l2) ==
    StoreAlways(l2, Add(Rent(l1), Fees(l1)),
                UpfrontSum(Rent(l1), Sec(l1), Last(l1), Pet(l1)),
                Mul(Rent(l1), PyInt(12)))

\* mutant: the per-tenant values computed whatever the tenant count
StorePerTenantAnyCount(l2, many, pos, r, s, u) ==
    IF pos.exc # "none" THEN Stop(pos.exc)
    ELSE IF ~pos.b THEN Going(l2)
    ELSE IF r.exc # "none" THEN Stop(r.exc)
    ELSE IF s.exc # "none" THEN Stop(s.exc)
    ELSE IF u.exc # "none" THEN Stop(u.exc)
    ELSE Going(Put(Put(Put(l2, "rent_per_tenant", r.v),
                       "deposit_per_tenant", s.v), "upfront_per_tenant", u.v))

StorePerTenant(l2, many, pos, r, s, u) ==
    IF many.exc # "none" THEN Stop(many.exc)
    ELSE IF ~many.b THEN Going(l2)
    ELSE IF pos.exc # "none" THEN Stop(pos.exc)
    ELSE IF ~pos.b THEN Going(l2)
    ELSE IF r.exc # "none" THEN Stop(r.exc)
    ELSE IF s.exc # "none" THEN Stop(s.exc)
    ELSE IF u.exc # "none" THEN Stop(u.exc)
    ELSE Going(Put(Put(Put(l2, "rent_per_tenant", r.v),
                       "deposit_per_tenant", s.v), "upfront_per_tenant", u.v))

\* lines 340-343
PerTenant(l1, l2) ==
    StorePerTenant(l2, Gt(NumTenants(l1), 1), Gt(Rent(l1), 0),
                   Div(Rent(l1), NumTenants(l1)),
                   Div(Sec(l1), NumTenants(l1)),
                   Div(l2["total_upfront_cost"], NumTenants(l1)))

IsDate(v) == v.t = "date"

\* lines 360-363: dl = end - timedelta(days=notice), days the whole days of it
NoticeDeadline(l2, now, notice, days, dl) ==
    IF notice.t \notin {"int", "bool", "float"} THEN Stop("TypeError")
    ELSE IF Abs(days) > MaxTimedeltaDays THEN Stop("OverflowError")
    ELSE IF dl < 1 \/ dl > MaxOrdinal THEN Stop("OverflowError")
    ELSE Going(Put(Put(l2, "renewal_deadline_date", PyDate(dl)),
                   "days_until_renewal_deadline", PyInt(dl - now)))

RenewalOf(l2, now, end, notice, explicit_dl) ==
    IF Truthy(explicit_dl) /\ IsDate(explicit_dl)
    THEN Going(Put(Put(l2, "renewal_deadline_date", explicit_dl),
                   "days_until_renewal_deadline", PyInt(explicit_dl.n - now)))
    ELSE IF ~Truthy(notice) THEN Going(l2)
    ELSE NoticeDeadline(l2, now, notice, Floor(notice.n, notice.d),
                        end.n - Floor(notice.n, notice.d))

\* lines 355-363
RenewalDeadline(l1, l2, now) ==
    RenewalOf(l2, now, Get(l1, "lease_end_date", None),
              Get(l1, "renewal_notice_days_required", None),
              Get(l1, "renewal_deadline_explicit", None))

\* lines 349-353, then the renewal deadline
StoreTerm(l1, l2, now, end, days, months, pos, liab) ==
    IF pos.exc # "none" THEN Stop(pos.exc)
    ELSE IF ~pos.b
    THEN RenewalDeadline(l1, Put(Put(Put(l2, "lease_term_days", PyInt(days)),
                                     "lease_term_months", months),
                                 "days_until_lease_end", PyInt(end.n - now)), now)
    ELSE IF liab.exc # "none" THEN Stop(liab.exc)
    ELSE RenewalDeadline(l1, Put(Put(Put(Put(l2, "lease_term_days", PyInt(days)),
                                         "lease_term_months", months),
                                     "total_liability_term", liab.v),
                                 "days_until_lease_end", PyInt(end.n - now)), now)

TermMonths(l1, l2, now, end, days, months) ==
    StoreTerm(l1, l2, now, end, days, months, Gt(Rent(l1), 0), Mul(Rent(l1), months))

\* line 348: delta = end - start
TermDays(l1, l2, now, end, days) ==
    TermMonths(l1, l2, now, end, days,
               PyInt(RoundHalfEven(days * 100, DAYS_PER_MONTH_X100)))

TermOf(l1, l2, now, start, end) ==
    IF ~(Truthy(start) /\ Truthy(end) /\ IsDate(start) /\ IsDate(end)) THEN Going(l2)
    ELSE TermDays(l1, l2, now, end, end.n - start.n)

\* lines 345-363
LeaseTerm(l1, l2, now) ==
    TermOf(l1, l2, now, Get(l1, "lease_start_date", None), Get(l1, "lease_end_date", None))

\* mutant: no test of sqft > 0
StoreSqftAnySign(l2, sqft, big, pos, f) ==
    IF ~Truthy(sqft) THEN Going(l2)
    ELSE IF pos.exc # "none" THEN Stop(pos.exc)
    ELSE IF ~pos.b THEN Going(l2)
    ELSE IF f.exc # "none" THEN Stop(f.exc)
    ELSE StoreOrStop(l2, "implied_cost_per_sqft_monthly", Div(f.v, sqft))

StoreSqft(l2, sqft, big, pos, f) ==
    IF ~Truthy(sqft) THEN Going(l2)
    ELSE IF big.exc # "none" THEN Stop(big.exc)
    ELSE IF ~big.b THEN Going(l2)
    ELSE IF pos.exc # "none" THEN Stop(pos.exc)
    ELSE IF ~pos.b THEN Going(l2)
    ELSE IF f.exc # "none" THEN Stop(f.exc)
    ELSE StoreOrStop(l2, "implied_cost_per_sqft_monthly", Div(f.v, sqft))

SqftOf(l2, sqft, eff) == StoreSqft(l2, sqft, Gt(sqft, 0), Gt(eff, 0), FloatOf(eff))

\* lines 365-368
CostPerSqft(l1, l2) ==
    SqftOf(l2, Get(l1, "square_footage", None), Get(l2, "effective_monthly_cost", Decimal0))

RatioOf(x, y) ==
    IF x.exc # "none" THEN Err(x.exc)
    ELSE IF y.exc # "none" THEN Err(y.exc)
    ELSE Div(x.v, y.v)

\* float(a) / float(b)
FloatRatio(a, b) == RatioOf(FloatOf(a), FloatOf(b))

StoreDepositRatio(l1, l2, has, pos) ==
    IF has.exc # "none" THEN Stop(has.exc)
    ELSE IF ~has.b THEN Going(l2)
    ELSE IF pos.exc # "none" THEN Stop(pos.exc)
    ELSE IF ~pos.b THEN Going(l2)
    ELSE StoreOrStop(l2, "deposit_as_months_rent", FloatRatio(Sec(l1), Rent(l1)))

\* lines 370-371
DepositRatio(l1, l2) == StoreDepositRatio(l1, l2, Gt(Sec(l1), 0), Gt(Rent(l1), 0))

\* Decimal(str(x)) for a number x
DecimalOfStr(x) == Num("Decimal", x.n, x.d)

\* lines 378-380, pct being late_pct / 100
StoreLatePct(l1, l2, pct, pos) ==
    IF pct.exc # "none" THEN Stop(pct.exc)
    ELSE IF pos.exc # "none" THEN Stop(pos.exc)
    ELSE IF ~pos.b THEN Going(Put(l2, "late_fee_as_pct_rent", pct.v))
    ELSE StoreOrStop(Put(l2, "late_fee_as_pct_rent", pct.v),
                     "late_fee_dollar_equivalent", Mul(Rent(l1), DecimalOfStr(pct.v)))

\* lines 377-380
LateByPct(l1, l2, late_pct, pos) ==
    IF ~Truthy(late_pct) THEN Going(l2)
    ELSE StoreLatePct(l1, l2, Div(late_pct, PyInt(100)), pos)

LateFeeOf(l1, l2, late_amt, late_pct, pos) ==
    IF ~Truthy(late_amt) THEN LateByPct(l1, l2, late_pct, pos)
    ELSE IF pos.exc # "none" THEN Stop(pos.exc)
    ELSE IF ~pos.b THEN LateByPct(l1, l2, late_pct, pos)
    ELSE StoreOrStop(l2, "late_fee_as_pct_rent", FloatRatio(late_amt, Rent(l1)))

\* lines 373-380
LateFee(l1, l2) ==
    LateFeeOf(l1, l2, Get(l1, "late_fee_initial_amount", None),
              Get(l1, "late_fee_initial_pct", None), Gt(Rent(l1), 0))

StoreHoldover(l1, l2, inc) ==
    IF inc.exc # "none" THEN Stop(inc.exc)
    ELSE StoreOrStop(Put(l2, "holdover_rent_increase", inc.v),
                     "holdover_rent_increase_pct", FloatRatio(inc.v, Rent(l1)))

HoldoverOf(l1, l2, holdover, pos) ==
    IF ~Truthy(holdover) THEN Going(l2)
    ELSE IF pos.exc # "none" THEN Stop(pos.exc)
    ELSE IF ~pos.b THEN Going(l2)
    ELSE StoreHoldover(l1, l2, Sub(holdover, Rent(l1)))

\* lines 382-385
Holdover(l1, l2) ==
    HoldoverOf(l1, l2, Get(l1, "holdover_rent_amount", None), Gt(Rent(l1), 0))

\* line 326: date.today()
TodayRead(clock) == clock

\* the k-th block of the function body
Block(k, l1, l2, now) ==
    CASE k = 1 -> AlwaysComputed(l1, l2)
      [] k = 2 -> PerTenant(l1, l2)
      [] k = 3 -> LeaseTerm(l1, l2, now)
      [] k = 4 -> CostPerSqft(l1, l2)
      [] k = 5 -> DepositRatio(l1, l2)
      [] k = 6 -> LateFee(l1, l2)
      [] OTHER -> Holdover(l1, l2)

\* block k after the blocks before it; an exception ends the body
Step(before, k, l1, now) ==
    IF before.exc # "none" THEN before ELSE Block(k, l1, before.l2, now)

RECURSIVE RunBlocks(_, _, _)
RunBlocks(k, l1, now) ==
    IF k = 0 THEN Going(EmptyDict)
    ELSE Step(RunBlocks(k - 1, l1, now), k, l1, now)

compute_layer2(l1, clock) == RunBlocks(7, l1, TodayRead(clock))

(***************************************************************************)
(* run_quality_gate                                                        *)
(***************************************************************************)
CONFIDENCE_THRESHOLD_X100 == 70
CONFIDENCE_THRESHOLD == PyFloat(CONFIDENCE_THRESHOLD_X100, 100)
CRITICAL_FIELDS == {"monthly_rent", "lease_start_date", "lease_end_date", "property_address"}
RENT_FLOOR == 50
RENT_CEILING == 100000

\* a reason is text \o ", ".join(names) \o str(value)
Reason(text, names, value) == [text |-> text, names |-> names, value |-> value]

\* the keys of confidence_scores in insertion order (the order of FIELD_MAP)
ConfidenceKeys(conf) ==
    SelectSeq([i \in 1..Len(FIELD_MAP) |-> FIELD_MAP[i][1]], LAMBDA f : f \in DOMAIN conf)

\* mutant: a confidence equal to the threshold counts as low
LessOrEqual(a, b) == a.n * b.d <= b.n * a.d

Less(a, b) == a.n * b.d < b.n * a.d

GateResult(review, why) == [exc |-> "none", requires_review |-> review, reasons |-> why]
GateRaised(e) == [exc |-> e, requires_review |-> FALSE, reasons |-> <<>>]

\* mutant: only a null value counts as missing
MissingCriticalNullOnly(l1, order) == SelectSeq(order, LAMBDA f : Get(l1, f, None) = None)

\* line 1010; order is the order in which iterating the set yields its members
MissingCritical(l1, order) == SelectSeq(order, LAMBDA f : ~Truthy(Get(l1, f, None)))

\* lines 1011-1013
MissingReason(missing) ==
    IF missing # <<>> THEN <<Reason("Missing critical fields: ", missing, None)>> ELSE <<>>

\* line 1014
LowConfidence(conf) ==
    SelectSeq(ConfidenceKeys(conf),
              LAMBDA f : f \in CRITICAL_FIELDS /\ Less(conf[f], CONFIDENCE_THRESHOLD))

\* lines 1015-1017
LowConfidenceReason(low_conf) ==
    IF low_conf # <<>>
    THEN <<Reason("Low confidence on critical fields: ", low_conf, None)>> ELSE <<>>

\* lines 1019-1021
RentReason(rent, under, over) ==
    IF Truthy(rent) /\ (under.b \/ over.b)
    THEN <<Reason("Unusual rent amount: $", <<>>, rent)>> ELSE <<>>

\* mutant: the reasons are collected but requires_review is never set
GateOfNeverReview(why) == GateResult(FALSE, why)

\* lines 1009-1022: requires_review is set wherever a reason is appended
GateOf(why) == GateResult(why # <<>>, why)

GateRent(earlier, rent, under, over) ==
    IF Truthy(rent) /\ under.exc # "none" THEN GateRaised(under.exc)
    ELSE GateOf(earlier \o RentReason(rent, under, over))

\* lines 1018-1022
GateRentOf(earlier, rent) ==
    GateRent(earlier, rent, Lt(rent, RENT_FLOOR), Gt(rent, RENT_CEILING))

run_quality_gate(l1, conf, flags, order) ==
    GateRentOf(MissingReason(MissingCritical(l1, order))
                   \o LowConfidenceReason(LowConfidence(conf)),
               Get(l1, "monthly_rent", None))

(***************************************************************************)
(* analyze_lease: what it hands to its collaborators and what it returns   *)
(***************************************************************************)
\* the steps of the handler, in the order of its statements (lines 1095-1166)
STEP_ORDER ==
    <<"extract_text_from_pdf", "call_gemini_with_text", "parse_gemini_response",
      "compute_layer2", "run_quality_gate", "call_claude",
      "generate_professional_pdf", "add_task">>

\* what call_claude returned: None, or the dict d that json.loads gave
NoOutput == [t |-> "None", d |-> EmptyDict]
ClaudeDict(d) == [t |-> "dict", d |-> d]
NotAsked == [t |-> "unset", d |-> EmptyDict]

\* `if claude_output`: None and the empty dict are false
ClaudeTruthy(co) == co.t = "dict" /\ DOMAIN co.d # {}

EmptyList == PyList(<<>>)

\* lines 1123-1126, s(v): a date becomes its ISO text and a Decimal its
\* numeral; the text is kept as the value it spells, under its own type
JsonOf(v) ==
    CASE v.t = "date" -> [v EXCEPT !.t = "isoformat"]
      [] v.t = "Decimal" -> [v EXCEPT !.t = "decimal_str"]
      [] OTHER -> v

\* lines 1137-1138
JsonDict(dict) == [k \in DOMAIN dict |-> JsonOf(dict[k])]

\* mutant: claude_output.get("flags") with neither guard nor default
Layer3FlagsUnguarded(co) == Get(co.d, "flags", None)

\* line 1139
Layer3Flags(co) == IF ClaudeTruthy(co) THEN Get(co.d, "flags", EmptyList) ELSE EmptyList

\* the keys of result["layer4"], lines 1141-1155
LAYER4_KEYS ==
    { "overall_lease_risk_score", "renewal_risk_score", "financial_burden_score",
      "landlord_access_risk_score", "termination_risk_score", "liability_risk_score",
      "risk_tier", "score_rationale", "lease_compared_to_market",
      "tenant_summary_biggest_risk", "tenant_summary_biggest_positive",
      "tenant_summary_key_action", "negotiation_priority_order",
      "walk_away_triggers", "tenant_disclaimer" }

\* the `else` of each line 1141-1155
Layer4Default(k) ==
    CASE k \in {"negotiation_priority_order", "walk_away_triggers"} -> EmptyList
      [] k = "tenant_disclaimer" -> PyStr(<<>>)
      [] OTHER -> None

Layer4(co) ==
    [k \in LAYER4_KEYS |-> IF ClaudeTruthy(co) THEN Get(co.d, k, None)
                           ELSE Layer4Default(k)]

\* line 1121: the report in base64, or None when the renderer gave b""
PdfBase64(pdf) == IF pdf = "bytes" THEN PyStr(<<"b", "6", "4">>) ELSE None

Result(l1, l2, flags3, l4, conf, flags, review, why, pdf64) ==
    [built |-> TRUE, layer1 |-> l1, layer2 |-> l2, layer3_flags |-> flags3,
     layer4 |-> l4, confidence_scores |-> conf, reasoning_flags |-> flags,
     requires_human_review |-> review, human_review_reasons |-> why,
     pdf_base64 |-> pdf64]

\* mutant: a record that needs review is withheld from the result
ResultOfWithheld(l1, l2, co, conf, flags, review, why, pdf) ==
    Result(IF review THEN EmptyDict ELSE JsonDict(l1), JsonDict(l2), Layer3Flags(co),
           Layer4(co), conf, flags, review, why, PdfBase64(pdf))

\* lines 1128-1162; the identifiers, the hash, the file name and the timings
\* of the result are left out
ResultOf(l1, l2, co, conf, flags, review, why, pdf) ==
    Result(JsonDict(l1), JsonDict(l2), Layer3Flags(co), Layer4(co), conf, flags,
           review, why, PdfBase64(pdf))

NoResult ==
    [built |-> FALSE, layer1 |-> EmptyDict, layer2 |-> EmptyDict,
     layer3_flags |-> EmptyList, layer4 |-> EmptyDict,
     confidence_scores |-> EmptyDict, reasoning_flags |-> <<>>,
     requires_human_review |-> FALSE, human_review_reasons |-> <<>>,
     pdf_base64 |-> None]

\* JSONResponse(content, status_code)
JSONResponse(content, status) == [status |-> status, error |-> FALSE, content |-> content]
\* lines 1103-1104
ExtractionFailed == [status |-> 500, error |-> TRUE, content |-> NoResult]
NoResponse == [status |-> 0, error |-> FALSE, content |-> NoResult]

\* mutant: the reasoning call is given an empty typed record
ClaudeArgsStale(l1, l2, flags) ==
    [called |-> TRUE, layer1 |-> EmptyDict, layer2 |-> l2, reasoning_flags |-> flags]

\* line 1115: the arguments of call_claude
ClaudeArgs(l1, l2, flags) ==
    [called |-> TRUE, layer1 |-> l1, layer2 |-> l2, reasoning_flags |-> flags]

\* line 1120: the arguments of generate_professional_pdf
PdfArgs(l1, l2, co) == [called |-> TRUE, layer1 |-> l1, layer2 |-> l2, claude_output |-> co]

\* lines 1165-1166: the arguments of insert_to_supabase
InsertTask(l1, l2, review) ==
    [layer1 |-> l1, layer2 |-> l2, requires_human_review |-> review]

NoClaudeCall ==
    [called |-> FALSE, layer1 |-> EmptyDict, layer2 |-> EmptyDict, reasoning_flags |-> <<>>]
NoPdfCall ==
    [called |-> FALSE, layer1 |-> EmptyDict, layer2 |-> EmptyDict, claude_output |-> NotAsked]

\* the handler has not started
NothingYet ==
    /\ raw_gemini = "unset" /\ claude_output = NotAsked /\ claude_args = NoClaudeCall
    /\ pdf_args = NoPdfCall /\ pdf_report = "unset" /\ result = NoResult
    /\ response = NoResponse /\ tasks = <<>> /\ db = "none" /\ steps = <<>>
    /\ gate_first = GateResult(FALSE, <<>>)

\* no request is being handled
Idle == NothingYet /\ supabase_url = FALSE
(***************************************************************************)
(* Sample inputs: what the extraction collaborator may put in a field      *)
(***************************************************************************)
S_money == <<"$", "1", ",", "2", "3", "4", ".", "5", "0">>
S_1500 == <<"1", "5", "0", "0", ".", "0", "0">>
S_3900 == <<"3", "9", "0", "0", ".", "0", "0">>
S_30 == <<"3", "0">>
S_tbd == <<"T", "B", "D">>
S_start == <<"2", "0", "2", "5", "-", "0", "6", "-", "0", "8">>
S_end == <<"2", "0", "2", "6", "-", "0", "5", "-", "3", "0">>
S_baddate == <<"2", "0", "2", "5", "-", "1", "3", "-", "4", "5">>
S_2_9 == <<" ", "2", ".", "9", " ">>
S_yes == <<"Y", "e", "s">>
S_utils == <<"w", "a", "t", "e", "r", ",", " ", "g", "a", "s", ",", ",", " ">>
S_empty == <<>>
S_0_9 == <<"0", ".", "9">>
S_high == <<"h", "i", "g", "h">>
S_false == <<"f", "a", "l", "s", "e">>
S_addr == <<"1", "2", " ", "E", "l", "m", " ", "S", "t">>
S_gas == <<"g", "a", "s">>
S_water == <<"w", "a", "t", "e", "r">>

\* values a field object may carry under "value"
SampleValues ==
    { None, Absent,
      PyStr(S_money), PyStr(S_1500), PyStr(S_tbd), PyStr(S_start),
      PyStr(S_baddate), PyStr(S_2_9), PyStr(S_yes), PyStr(S_utils),
      PyStr(S_empty), PyInt(3), PyInt(0), PyFloat(3001, 2), PyBool(TRUE),
      PyList(<<S_gas, S_water>>) }

\* "confidence": a number in [0, 1], or missing, or malformed
NumericConfidences == { PyFloat(95, 100), PyFloat(7, 10), PyFloat(1, 2), PyInt(1), PyInt(0) }
MalformedConfidences == { PyStr(S_high), None, PyList(<<S_gas>>) }
SampleConfidences == NumericConfidences \cup MalformedConfidences \cup { Absent, PyStr(S_0_9) }

\* "flag_for_reasoning": a bool, or missing, or something else
SampleFlags == { Absent, PyBool(TRUE), PyBool(FALSE), None, PyStr(S_false) }

\* entries that are not objects: bare scalars, null, a bare array
BareEntries ==
    { None, PyStr(S_1500), PyStr(S_tbd), PyStr(S_empty), PyInt(1500), PyInt(0),
      PyFloat(3001, 2), PyBool(TRUE), PyBool(FALSE), PyList(<<S_gas, S_water>>) }

FieldTypes == {"str", "decimal", "int", "float", "date", "bool", "list"}

DictEntries ==
    { RawDict(v, c, f) : v \in SampleValues, c \in SampleConfidences, f \in SampleFlags }

NotCalled == [exc |-> "pending", value |-> None, confidence |-> None, flag |-> FALSE]

(***************************************************************************)
(* Specification SpecField: one call of parse_field                        *)
(***************************************************************************)
Today0 == 739500
NoExc == [type |-> "none", in |-> "none"]

\* nothing computed yet
Blank ==
    /\ raw = <<>> /\ confidence_scores = EmptyDict
    /\ reasoning_flags = <<>> /\ layer2 = EmptyDict /\ requires_review = FALSE
    /\ reasons = <<>> /\ today = Today0 /\ exc = NoExc /\ hash_order = <<>>
    /\ l2_first = EmptyDict /\ pf_result = NotCalled
    /\ Idle

InitField ==
    /\ Blank
    /\ layer1 = EmptyDict
    /\ pc = "pf_call"
    /\ \E e \in DictEntries \cup BareEntries, ty \in FieldTypes : pf_args = <<e, ty>>

CallParseField ==
    /\ pc = "pf_call"
    /\ pf_result' = parse_field(pf_args[1], pf_args[2])
    /\ pc' = "pf_done"
    /\ UNCHANGED <<raw, layer1, confidence_scores, reasoning_flags, layer2,
                   requires_review, reasons, today, exc, hash_order, pf_args,
                   l2_first,
                   orch>>

NextField == CallParseField

SpecField == InitField /\ [][NextField]_vars

(***************************************************************************)
(* Specification Spec: the core as analyze_lease runs it on one extraction *)
(* result (lines 1100-1112)                                                *)
(***************************************************************************)
MaxRawKeys == 2

RecordKeys ==
    { "property_address", "monthly_rent", "lease_start_date", "lease_end_date",
      "number_of_tenants", "landlord_phone" }

RecordEntries ==
    { RawDict(PyStr(S_1500), PyFloat(95, 100), Absent),
      RawDict(PyStr(S_start), PyFloat(95, 100), PyBool(TRUE)),
      RawDict(PyStr(S_30), PyFloat(1, 2), PyBool(TRUE)),
      RawDict(PyStr(S_tbd), PyFloat(7, 10), PyBool(FALSE)),
      RawDict(None, PyStr(S_high), Absent),
      PyStr(S_1500),
      PyInt(3),
      None }

\* ordered dicts of at most k distinct keys
RECURSIVE RawRecords(_)
RawRecords(k) ==
    IF k = 0 THEN { <<>> }
    ELSE RawRecords(k - 1) \cup
         { Append(r, <<key, e>>) :
             r \in { q \in RawRecords(k - 1) : Len(q) = k - 1 },
             key \in RecordKeys, e \in RecordEntries }

DistinctKeys(r) == \A i, j \in 1..Len(r) : r[i][1] = r[j][1] => i = j

\* iteration orders of the set CRITICAL_FIELDS (it depends on the string hashes)
HashOrders ==
    { <<"property_address", "monthly_rent", "lease_start_date", "lease_end_date">>,
      <<"lease_end_date", "lease_start_date", "monthly_rent", "property_address">>,
      <<"monthly_rent", "lease_end_date", "property_address", "lease_start_date">> }

Init ==
    /\ Blank
    /\ layer1 = EmptyDict
    /\ pf_args = <<None, "str">>
    /\ pc = "gemini"

\* line 1100: the extraction collaborator returns a record
GeminiReturns ==
    /\ pc = "gemini"
    /\ \E r \in RawRecords(MaxRawKeys) : DistinctKeys(r) /\ raw' = r
    /\ pc' = "parse"
    /\ UNCHANGED <<layer1, confidence_scores, reasoning_flags, layer2,
                   requires_review, reasons, today, exc, hash_order, pf_args,
                   pf_result, l2_first,
                   orch>>

\* the three results are bound, or the exception leaves the handler
ParseDone(res) ==
    IF res.exc # "none"
    THEN /\ pc' = "raised"
         /\ exc' = [type |-> res.exc, in |-> "parse_gemini_response"]
         /\ UNCHANGED <<layer1, confidence_scores, reasoning_flags>>
    ELSE /\ pc' = "layer2"
         /\ layer1' = res.layer1
         /\ confidence_scores' = res.confidence_scores
         /\ reasoning_flags' = res.reasoning_flags
         /\ UNCHANGED exc

\* line 1106
Parse ==
    /\ pc = "parse"
    /\ ParseDone(parse_gemini_response(raw))
    /\ UNCHANGED <<raw, layer2, requires_review, reasons, today, hash_order,
                   pf_args, pf_result, l2_first,
                   orch>>

\* mutant: the handler goes from the derived metrics straight past the gate
Layer2DoneSkipsGate(res) ==
    /\ pc' = "gated"
    /\ layer2' = res.l2
    /\ UNCHANGED exc

Layer2Done(res) ==
    IF res.exc # "none"
    THEN /\ pc' = "raised"
         /\ exc' = [type |-> res.exc, in |-> "compute_layer2"]
         /\ UNCHANGED layer2
    ELSE /\ pc' = "gate"
         /\ layer2' = res.l2
         /\ UNCHANGED exc

\* line 1109
Layer2 ==
    /\ pc = "layer2"
    /\ Layer2Done(compute_layer2(layer1, today))
    /\ UNCHANGED <<raw, layer1, confidence_scores, reasoning_flags,
                   requires_review, reasons, today, hash_order, pf_args,
                   pf_result, l2_first,
                   orch>>

GateDone(res) ==
    IF res.exc # "none"
    THEN /\ pc' = "raised"
         /\ exc' = [type |-> res.exc, in |-> "run_quality_gate"]
         /\ UNCHANGED <<requires_review, reasons>>
    ELSE /\ pc' = "gated"
         /\ requires_review' = res.requires_review
         /\ reasons' = res.reasons
         /\ UNCHANGED exc

\* line 1112
Gate ==
    /\ pc = "gate"
    /\ \E order \in HashOrders :
         /\ hash_order' = order
         /\ GateDone(run_quality_gate(layer1, confidence_scores, reasoning_flags, order))
    /\ UNCHANGED <<raw, layer1, confidence_scores, reasoning_flags, layer2,
                   today, pf_args, pf_result, l2_first,
                   orch>>

Next == GeminiReturns \/ Parse \/ Layer2 \/ Gate

Spec == Init /\ [][Next]_vars

(***************************************************************************)
(* Specification SpecL2: compute_layer2 called twice on one typed record   *)
(* while the system date moves on                                          *)
(***************************************************************************)
MaxDayAdvance == 2

AllNull == [f \in FieldNames |-> None]

TypedRecord(rent, sec, last, pet, fees, tenants, start, end) ==
    [AllNull EXCEPT !["monthly_rent"] = rent, !["security_deposit"] = sec,
                    !["last_month_deposit"] = last, !["pet_deposit"] = pet,
                    !["other_fees_monthly"] = fees, !["number_of_tenants"] = tenants,
                    !["lease_start_date"] = start, !["lease_end_date"] = end]

Date_2025_06_08 == PyDate(Ordinal(2025, 6, 8))
Date_2026_05_30 == PyDate(Ordinal(2026, 5, 30))

TypedRecords ==
    { TypedRecord(rent, sec, last, pet, fees, tenants, start, end) :
        rent \in { None, PyDecimal(0, 1), PyDecimal(1500, 1), PyDecimal(3900, 1),
                   PyDecimal(-100, 1) },
        sec \in { None, PyDecimal(3000, 1) },
        last \in { None, PyDecimal(1500, 1) },
        pet \in { None, PyDecimal(25050, 100) },
        fees \in { None, PyDecimal(0, 1), PyDecimal(7525, 100) },
        tenants \in { None, PyInt(1), PyInt(3) },
        start \in { None, Date_2025_06_08 },
        end \in { None, Date_2026_05_30 } }

\* a typed record that is null except for the given fields
Over(fields) == fields @@ AllNull

Date_2025_06_23 == PyDate(Ordinal(2025, 6, 23))
Date_2026_03_01 == PyDate(Ordinal(2026, 3, 1))
Date_2024_02_29 == PyDate(Ordinal(2024, 2, 29))

\* tenant counts, zero and negative included
TenantRecords ==
    { Over(("monthly_rent" :> rent) @@ ("security_deposit" :> sec)
           @@ ("last_month_deposit" :> last) @@ ("number_of_tenants" :> tenants)) :
        rent \in { None, PyDecimal(0, 1), PyDecimal(1500, 1), PyDecimal(-100, 1) },
        sec \in { None, PyDecimal(3000, 1) },
        last \in { None, PyDecimal(1500, 1) },
        tenants \in { None, PyInt(0), PyInt(1), PyInt(2), PyInt(3), PyInt(-2) } }

\* lease dates (an end before the start included), notice days and an
\* explicit renewal deadline
TermRecords ==
    { Over(("monthly_rent" :> rent) @@ ("lease_start_date" :> start)
           @@ ("lease_end_date" :> end) @@ ("renewal_notice_days_required" :> notice)
           @@ ("renewal_deadline_explicit" :> explicit_dl)) :
        rent \in { None, PyDecimal(0, 1), PyDecimal(3900, 1) },
        start \in { None, Date_2025_06_08, Date_2024_02_29 },
        end \in { None, Date_2026_05_30, Date_2025_06_23, Date_2024_02_29 },
        notice \in { None, PyInt(0), PyInt(60), PyInt(-30), PyInt(800000),
                     PyInt(1000000000) },
        explicit_dl \in { None, Date_2026_03_01 } }

\* square footage, zero and negative included
SqftRecords ==
    { Over(("monthly_rent" :> rent) @@ ("other_fees_monthly" :> fees)
           @@ ("square_footage" :> sqft)) :
        rent \in { None, PyDecimal(0, 1), PyDecimal(1500, 1), PyDecimal(-100, 1) },
        fees \in { None, PyDecimal(7525, 100) },
        sqft \in { None, PyFloat(0, 1), PyFloat(850, 1), PyFloat(-1, 1) } }

\* late fees as an amount and as a percentage
LateFeeRecords ==
    { Over(("monthly_rent" :> rent) @@ ("late_fee_initial_amount" :> late_amt)
           @@ ("late_fee_initial_pct" :> late_pct)) :
        rent \in { None, PyDecimal(0, 1), PyDecimal(1500, 1) },
        late_amt \in { None, PyDecimal(0, 1), PyDecimal(75, 1) },
        late_pct \in { None, PyFloat(0, 1), PyFloat(5, 1), PyFloat(10, 1) } }

\* holdover rent above, below and at zero
HoldoverRecords ==
    { Over(("monthly_rent" :> rent) @@ ("holdover_rent_amount" :> holdover)) :
        rent \in { None, PyDecimal(0, 1), PyDecimal(3900, 1) },
        holdover \in { None, PyDecimal(0, 1), PyDecimal(4000, 1), PyDecimal(3000, 1) } }

WellTypedRecords ==
    TypedRecords \cup TenantRecords \cup TermRecords \cup SqftRecords
    \cup LateFeeRecords \cup HoldoverRecords

InitL2 ==
    /\ Blank
    /\ pf_args = <<None, "str">>
    /\ pc = "l2_first"
    /\ \E rec \in WellTypedRecords : layer1 = rec

\* the system date advances
Tick ==
    /\ pc \in {"l2_first", "l2_second"}
    /\ today < Today0 + MaxDayAdvance
    /\ today' = today + 1
    /\ UNCHANGED <<pc, raw, layer1, confidence_scores, reasoning_flags, layer2,
                   requires_review, reasons, exc, hash_order, pf_args, pf_result,
                   l2_first,
                   orch>>

FirstDone(res) ==
    IF res.exc # "none"
    THEN /\ pc' = "raised"
         /\ exc' = [type |-> res.exc, in |-> "compute_layer2"]
         /\ UNCHANGED <<layer2, l2_first>>
    ELSE /\ pc' = "l2_second"
         /\ layer2' = res.l2
         /\ l2_first' = res.l2
         /\ UNCHANGED exc

FirstCall ==
    /\ pc = "l2_first"
    /\ FirstDone(compute_layer2(layer1, today))
    /\ UNCHANGED <<raw, layer1, confidence_scores, reasoning_flags,
                   requires_review, reasons, today, hash_order, pf_args,
                   pf_result,
                   orch>>

SecondDone(res) ==
    IF res.exc # "none"
    THEN /\ pc' = "raised"
         /\ exc' = [type |-> res.exc, in |-> "compute_layer2"]
         /\ UNCHANGED layer2
    ELSE /\ pc' = "l2_done"
         /\ layer2' = res.l2
         /\ UNCHANGED exc

SecondCall ==
    /\ pc = "l2_second"
    /\ SecondDone(compute_layer2(layer1, today))
    /\ UNCHANGED <<raw, layer1, confidence_scores, reasoning_flags,
                   requires_review, reasons, today, hash_order, pf_args,
                   pf_result, l2_first,
                   orch>>

NextL2 == Tick \/ FirstCall \/ SecondCall

SpecL2 == InitL2 /\ [][NextL2]_vars

(***************************************************************************)
(* Specification SpecGate: run_quality_gate on one typed record and its    *)
(* confidence record                                                       *)
(***************************************************************************)
\* the critical fields null, falsy and present; rents around 50 and 100000
CriticalRecords ==
    { Over(("property_address" :> addr) @@ ("monthly_rent" :> rent)
           @@ ("lease_start_date" :> start) @@ ("lease_end_date" :> end)) :
        addr \in { None, PyStr(S_empty), PyStr(S_addr) },
        rent \in { None, PyDecimal(0, 1), PyDecimal(-100, 1), PyDecimal(30, 1),
                   PyDecimal(4999, 100), PyDecimal(50, 1), PyDecimal(1500, 1),
                   PyDecimal(100000, 1), PyDecimal(10000001, 100) },
        start \in { None, Date_2025_06_08 },
        end \in { None, Date_2026_05_30 } }

AllConfident == [f \in FieldNames |-> PyFloat(95, 100)]

\* confidences below, at and above the threshold, on critical fields and on
\* one that is not critical
ConfidenceRecords ==
    { (("property_address" :> addr) @@ ("monthly_rent" :> rent)
       @@ ("lease_end_date" :> end) @@ ("tenant_full_name" :> tenant)) @@ AllConfident :
        addr \in { PyFloat(69, 100), PyFloat(70, 100), PyFloat(95, 100) },
        rent \in { PyFloat(0, 1), PyFloat(69, 100), PyFloat(95, 100) },
        end \in { PyFloat(1, 2), PyFloat(95, 100) },
        tenant \in { PyFloat(1, 10), PyFloat(95, 100) } }

InitGate ==
    /\ raw = <<>> /\ layer2 = EmptyDict /\ requires_review = FALSE
    /\ reasons = <<>> /\ today = Today0 /\ exc = NoExc /\ hash_order = <<>>
    /\ l2_first = EmptyDict /\ pf_result = NotCalled
    /\ pf_args = <<None, "str">>
    /\ reasoning_flags = <<>>
    /\ Idle
    /\ pc = "gate"
    /\ \E rec \in CriticalRecords, conf \in ConfidenceRecords :
         layer1 = rec /\ confidence_scores = conf

NextGate == Gate

SpecGate == InitGate /\ [][NextGate]_vars


(***************************************************************************)
(* Specification SpecGateTwice: run_quality_gate evaluated twice on one    *)
(* typed record and confidence record, in one process or in two            *)
(***************************************************************************)
FlagLists == { <<>>, <<"monthly_rent", "lease_end_date">> }

\* the set CRITICAL_FIELDS is built when the module is loaded (line 1006);
\* its iteration order is then fixed for the life of the process
InitGateTwice ==
    /\ raw = <<>> /\ layer2 = EmptyDict /\ requires_review = FALSE
    /\ reasons = <<>> /\ today = Today0 /\ exc = NoExc
    /\ l2_first = EmptyDict /\ pf_result = NotCalled
    /\ pf_args = <<None, "str">>
    /\ Idle
    /\ pc = "gate_first"
    /\ \E order \in HashOrders : hash_order = order
    /\ \E flags \in FlagLists : reasoning_flags = flags
    /\ \E rec \in CriticalRecords, conf \in ConfidenceRecords :
         layer1 = rec /\ confidence_scores = conf

FirstGateDone(res) ==
    IF res.exc # "none"
    THEN /\ pc' = "raised"
         /\ exc' = [type |-> res.exc, in |-> "run_quality_gate"]
         /\ UNCHANGED gate_first
    ELSE /\ pc' = "gate_second"
         /\ gate_first' = res
         /\ UNCHANGED exc

FirstEvaluation ==
    /\ pc = "gate_first"
    /\ FirstGateDone(run_quality_gate(layer1, confidence_scores, reasoning_flags,
                                      hash_order))
    /\ UNCHANGED <<raw, layer1, confidence_scores, reasoning_flags, layer2,
                   requires_review, reasons, today, hash_order, pf_args,
                   pf_result, l2_first, request>>

\* the service is started again: the strings hash differently (hash
\* randomisation), so the set is iterated in another order
NewProcess ==
    /\ pc = "gate_second"
    /\ \E order \in HashOrders \ {hash_order} : hash_order' = order
    /\ pc' = "gate_second_new"
    /\ UNCHANGED <<raw, layer1, confidence_scores, reasoning_flags, layer2,
                   requires_review, reasons, today, exc, pf_args, pf_result,
                   l2_first, orch>>

\* the second evaluation, with the same or another reasoning flag list
SecondEvaluation ==
    /\ pc \in {"gate_second", "gate_second_new"}
    /\ \E flags \in FlagLists :
         /\ reasoning_flags' = flags
         /\ GateDone(run_quality_gate(layer1, confidence_scores, flags, hash_order))
    /\ UNCHANGED <<raw, layer1, confidence_scores, layer2, today, hash_order,
                   pf_args, pf_result, l2_first, orch>>

NextGateTwice == FirstEvaluation \/ NewProcess \/ SecondEvaluation

SpecGateTwice == InitGateTwice /\ [][NextGateTwice]_vars

(***************************************************************************)
(* Specification SpecAnalyze: one request through analyze_lease, from the  *)
(* text extraction (line 1095) to the response and the background insert.  *)
(* The upload has passed the checks of lines 1081-1088.                    *)
(***************************************************************************)
Field(name, chars, conf) == <<name, RawDict(PyStr(chars), conf, Absent)>>

\* a lease with its four critical fields, confidently extracted
R_full ==
    << Field("property_address", S_addr, PyFloat(95, 100)),
       Field("monthly_rent", S_1500, PyFloat(95, 100)),
       Field("lease_start_date", S_start, PyFloat(95, 100)),
       <<"lease_end_date", RawDict(PyStr(S_end), PyFloat(95, 100), PyBool(TRUE))>> >>

\* no address; a rent of 30 with a doubtful end date; uncoercible rent text
R_no_address == Tail(R_full)
R_cheap ==
    << Field("property_address", S_addr, PyFloat(95, 100)),
       Field("monthly_rent", S_30, PyFloat(95, 100)),
       Field("lease_start_date", S_start, PyFloat(95, 100)),
       Field("lease_end_date", S_end, PyFloat(1, 2)) >>
R_tbd == << Field("monthly_rent", S_tbd, PyFloat(7, 10)) >>

\* a bare string where a field object is expected; a malformed confidence
R_bare == << <<"monthly_rent", PyStr(S_1500)>> >>
R_malformed == << <<"monthly_rent", RawDict(None, PyStr(S_high), Absent)>> >>

\* the JSON objects the extraction collaborator returns, {} among them
GeminiDicts == { <<>>, R_full, R_no_address, R_cheap, R_tbd, R_bare, R_malformed }

S_flag == <<"l", "a", "t", "e", "_", "f", "e", "e">>
S_tier == <<"Y", "E", "L", "L", "O", "W">>

\* what call_claude returns: None (no key, an API error, invalid JSON),
\* the empty object, an object without "flags", a full answer
ClaudeOutputs ==
    { NoOutput,
      ClaudeDict(EmptyDict),
      ClaudeDict(("overall_lease_risk_score" :> PyInt(72)) @@ ("risk_tier" :> PyStr(S_tier))),
      ClaudeDict(("flags" :> PyList(<<S_flag>>)) @@ ("overall_lease_risk_score" :> PyInt(41))
                 @@ ("negotiation_priority_order" :> PyList(<<S_flag>>))) }

\* the variables the handler never assigns
untouched == <<today, hash_order, pf_args, pf_result, l2_first, gate_first, supabase_url>>

InitAnalyze ==
    /\ pc = "extract_text"
    /\ raw = <<>> /\ layer1 = EmptyDict /\ confidence_scores = EmptyDict
    /\ reasoning_flags = <<>> /\ layer2 = EmptyDict /\ requires_review = FALSE
    /\ reasons = <<>> /\ today = Today0 /\ exc = NoExc
    /\ l2_first = EmptyDict /\ pf_result = NotCalled /\ pf_args = <<None, "str">>
    /\ NothingYet
    /\ \E order \in HashOrders : hash_order = order
    /\ \E configured \in BOOLEAN : supabase_url = configured

Started(step) == steps' = Append(steps, step)

\* extract_text_from_pdf catches ImportError only (line 60): any other error
\* of the PDF library leaves the handler
TextDone(outcome) ==
    IF outcome = "raised"
    THEN /\ pc' = "raised"
         /\ exc' = [type |-> "Exception", in |-> "extract_text_from_pdf"]
    ELSE /\ pc' = "gemini"
         /\ UNCHANGED exc

\* lines 1095-1097
ExtractText ==
    /\ pc = "extract_text"
    /\ Started("extract_text_from_pdf")
    /\ \E outcome \in {"text", "raised"} : TextDone(outcome)
    /\ UNCHANGED <<raw, layer1, confidence_scores, reasoning_flags, layer2,
                   requires_review, reasons, raw_gemini, claude_output,
                   claude_args, pdf_args, pdf_report, result, response, tasks,
                   db, untouched>>

\* line 1100: the call is awaited
CallGemini ==
    /\ pc = "gemini"
    /\ Started("call_gemini_with_text")
    /\ pc' = "gemini_wait"
    /\ UNCHANGED <<raw, layer1, confidence_scores, reasoning_flags, layer2,
                   requires_review, reasons, exc, raw_gemini, claude_output,
                   claude_args, pdf_args, pdf_report, result, response, tasks,
                   db, untouched>>

\* mutant: None is handed on like an empty record
GeminiDoneLenient(answer, r) ==
    /\ raw_gemini' = answer
    /\ raw' = (IF answer = "None" THEN <<>> ELSE r)
    /\ pc' = "parse"
    /\ UNCHANGED response

\* lines 1100-1104
GeminiDone(answer, r) ==
    IF answer = "None"
    THEN /\ raw_gemini' = "None"
         /\ response' = ExtractionFailed
         /\ pc' = "responded"
         /\ UNCHANGED raw
    ELSE /\ raw_gemini' = "dict"
         /\ raw' = r
         /\ pc' = "parse"
         /\ UNCHANGED response

GeminiAnswers ==
    /\ pc = "gemini_wait"
    /\ \/ GeminiDone("None", <<>>)
       \/ \E r \in GeminiDicts : GeminiDone("dict", r)
    /\ UNCHANGED <<layer1, confidence_scores, reasoning_flags, layer2,
                   requires_review, reasons, exc, claude_output, claude_args,
                   pdf_args, pdf_report, result, tasks, db, steps, untouched>>

\* line 1106
ParseStep ==
    /\ pc = "parse"
    /\ Started("parse_gemini_response")
    /\ ParseDone(parse_gemini_response(raw))
    /\ UNCHANGED <<raw, layer2, requires_review, reasons, raw_gemini,
                   claude_output, claude_args, pdf_args, pdf_report, result,
                   response, tasks, db, untouched>>

\* line 1109
Layer2Step ==
    /\ pc = "layer2"
    /\ Started("compute_layer2")
    /\ Layer2Done(compute_layer2(layer1, today))
    /\ UNCHANGED <<raw, layer1, confidence_scores, reasoning_flags,
                   requires_review, reasons, raw_gemini, claude_output,
                   claude_args, pdf_args, pdf_report, result, response, tasks,
                   db, untouched>>

\* line 1112
GateStep ==
    /\ pc = "gate"
    /\ Started("run_quality_gate")
    /\ GateDone(run_quality_gate(layer1, confidence_scores, reasoning_flags,
                                 hash_order))
    /\ UNCHANGED <<raw, layer1, confidence_scores, reasoning_flags, layer2,
                   raw_gemini, claude_output, claude_args, pdf_args,
                   pdf_report, result, response, tasks, db, untouched>>

\* line 1115: the call is awaited; requires_review is not looked at
CallClaude ==
    /\ pc = "gated"
    /\ Started("call_claude")
    /\ claude_args' = ClaudeArgs(layer1, layer2, reasoning_flags)
    /\ pc' = "claude_wait"
    /\ UNCHANGED <<raw, layer1, confidence_scores, reasoning_flags, layer2,
                   requires_review, reasons, exc, raw_gemini, claude_output,
                   pdf_args, pdf_report, result, response, tasks, db,
                   untouched>>

\* lines 1115-1117: None is logged and kept
ClaudeAnswers ==
    /\ pc = "claude_wait"
    /\ \E co \in ClaudeOutputs : claude_output' = co
    /\ pc' = "pdf"
    /\ UNCHANGED <<raw, layer1, confidence_scores, reasoning_flags, layer2,
                   requires_review, reasons, exc, raw_gemini, claude_args,
                   pdf_args, pdf_report, result, response, tasks, db, steps,
                   untouched>>

\* lines 1120-1121: generate_professional_pdf returns the report, or b"" when
\* anything in it failed (lines 996-999)
RenderPdf ==
    /\ pc = "pdf"
    /\ Started("generate_professional_pdf")
    /\ pdf_args' = PdfArgs(layer1, layer2, claude_output)
    /\ \E report \in {"bytes", "empty"} : pdf_report' = report
    /\ pc' = "result"
    /\ UNCHANGED <<raw, layer1, confidence_scores, reasoning_flags, layer2,
                   requires_review, reasons, exc, raw_gemini, claude_output,
                   claude_args, result, response, tasks, db, untouched>>

\* lines 1128-1162
BuildResult ==
    /\ pc = "result"
    /\ result' = ResultOf(layer1, layer2, claude_output, confidence_scores,
                          reasoning_flags, requires_review, reasons, pdf_report)
    /\ pc' = "schedule"
    /\ UNCHANGED <<raw, layer1, confidence_scores, reasoning_flags, layer2,
                   requires_review, reasons, exc, raw_gemini, claude_output,
                   claude_args, pdf_args, pdf_report, response, tasks, db,
                   steps, untouched>>

\* lines 1164-1166
ScheduleInsert ==
    /\ pc = "schedule"
    /\ IF supabase_url
       THEN /\ Started("add_task")
            /\ tasks' = Append(tasks, InsertTask(layer1, layer2, requires_review))
       ELSE UNCHANGED <<steps, tasks>>
    /\ pc' = "respond"
    /\ UNCHANGED <<raw, layer1, confidence_scores, reasoning_flags, layer2,
                   requires_review, reasons, exc, raw_gemini, claude_output,
                   claude_args, pdf_args, pdf_report, result, response, db,
                   untouched>>

\* line 1171
Respond ==
    /\ pc = "respond"
    /\ response' = JSONResponse(result, 200)
    /\ pc' = "responded"
    /\ UNCHANGED <<raw, layer1, confidence_scores, reasoning_flags, layer2,
                   requires_review, reasons, exc, raw_gemini, claude_output,
                   claude_args, pdf_args, pdf_report, result, tasks, db, steps,
                   untouched>>

\* mutant: a failed insert turns the response into an error
InsertDonePropagating(outcome) ==
    /\ db' = outcome
    /\ response' = (IF outcome = "failed" THEN ExtractionFailed ELSE response)

\* lines 1028-1047: the whole body is in a try; a failure is logged
InsertDone(outcome) ==
    /\ db' = outcome
    /\ UNCHANGED response

\* the background task runs once the response is sent; the row it builds is
\* not modelled, only whether the insert went through
RunInsert ==
    /\ pc = "responded"
    /\ tasks # <<>>
    /\ db = "none"
    /\ \E outcome \in {"inserted", "failed"} : InsertDone(outcome)
    /\ UNCHANGED <<pc, raw, layer1, confidence_scores, reasoning_flags, layer2,
                   requires_review, reasons, exc, raw_gemini, claude_output,
                   claude_args, pdf_args, pdf_report, result, tasks, steps,
                   untouched>>

NextAnalyze ==
    \/ ExtractText \/ CallGemini \/ GeminiAnswers \/ ParseStep \/ Layer2Step
    \/ GateStep \/ CallClaude \/ ClaudeAnswers \/ RenderPdf \/ BuildResult
    \/ ScheduleInsert \/ Respond \/ RunInsert

SpecAnalyze == InitAnalyze /\ [][NextAnalyze]_vars

\* once the gate has returned, the handler runs on: the reasoning call it
\* awaits returns (the client times out), and the statements after it are
\* straight-line code
SpecAnalyzeLive ==
    /\ SpecAnalyze
    /\ WF_vars(CallClaude) /\ WF_vars(ClaudeAnswers) /\ WF_vars(RenderPdf)
    /\ WF_vars(BuildResult) /\ WF_vars(ScheduleInsert) /\ WF_vars(Respond)
(***************************************************************************)
(* Claims about parse_field (checked under SpecField)                      *)
(***************************************************************************)
PfEntry == pf_args[1]
PfType == pf_args[2]

\* the confidence and flag of a well-shaped field object: a number, and a
\* bool or no flag at all
WellShapedMeta(entry) ==
    /\ entry.confidence \in NumericConfidences
    /\ entry.flag_for_reasoning.t \in {"bool", "absent"}

SameNumber(a, b) == IsNumber(a) /\ IsNumber(b) /\ a.n * b.d = b.n * a.d

\* the result carries the entry's own confidence and flag
MetaRetained(entry, res) ==
    /\ res.confidence.t = "float"
    /\ SameNumber(res.confidence, entry.confidence)
    /\ res.flag = (entry.flag_for_reasoning.t = "bool" /\ entry.flag_for_reasoning.n = 1)

\* C4: for every field object whose value is null (JSON null or no "value"
\* key) and every declared field type, parse_field returns a null value with
\* the confidence and the flag the object carries.
C4_NullValueKeepsConfidenceAndFlag ==
    (/\ pc = "pf_done"
     /\ PfEntry.t = "dict"
     /\ PfEntry.value.t \in {"None", "absent"}
     /\ WellShapedMeta(PfEntry))
    => /\ pf_result.exc = "none"
       /\ pf_result.value = None
       /\ MetaRetained(PfEntry, pf_result)

C4_Witness ==
    /\ pc = "pf_done"
    /\ PfEntry = RawDict(None, PyFloat(95, 100), PyBool(TRUE))
    /\ PfType = "date"
    /\ pf_result = Returned(None, PyFloat(95, 100), TRUE)

\* values that are not a numeral (after "," and "$" are removed)
NotANumeral ==
    { PyStr(S_tbd), PyStr(S_start), PyStr(S_baddate), PyStr(S_yes),
      PyStr(S_utils), PyStr(S_empty), PyBool(TRUE), PyList(<<S_gas, S_water>>) }

\* values that are not a calendar date
NotADate ==
    { PyStr(S_tbd), PyStr(S_baddate), PyStr(S_money), PyStr(S_1500),
      PyStr(S_2_9), PyStr(S_yes), PyStr(S_utils), PyStr(S_empty), PyInt(3),
      PyInt(0), PyFloat(3001, 2), PyBool(TRUE), PyList(<<S_gas, S_water>>) }

Unparseable(value, field_type) ==
    CASE field_type = "decimal" -> value \in NotANumeral
      [] field_type \in {"int", "float"} -> value \in NotANumeral \cup {PyStr(S_money)}
      [] field_type = "date" -> value \in NotADate
      [] OTHER -> FALSE

\* C5: for the decimal, int, float and date types, a value that cannot be
\* parsed as that type makes parse_field return (it does not raise) a null
\* value with the object's own confidence and flag.
C5_FailedCoercionIsNull ==
    (/\ pc = "pf_done"
     /\ PfEntry.t = "dict"
     /\ Unparseable(PfEntry.value, PfType)
     /\ WellShapedMeta(PfEntry))
    => /\ pf_result.exc = "none"
       /\ pf_result.value = None
       /\ MetaRetained(PfEntry, pf_result)

C5_Witness ==
    /\ pc = "pf_done"
    /\ PfEntry = RawDict(PyStr(S_baddate), PyFloat(7, 10), PyBool(TRUE))
    /\ PfType = "date"
    /\ pf_result = Returned(None, PyFloat(7, 10), TRUE)

\* C9: an entry that is not an object comes back as it is, with confidence
\* 0.5 and flag false, whatever the declared field type.
C9_BareEntryPassesThrough ==
    (pc = "pf_done" /\ PfEntry.t # "dict")
    => /\ pf_result.exc = "none"
       /\ pf_result.value = PfEntry
       /\ pf_result.confidence.t = "float"
       /\ pf_result.confidence.n = 1 /\ pf_result.confidence.d = 2
       /\ pf_result.flag = FALSE

C9_Witness ==
    /\ pc = "pf_done"
    /\ PfEntry = PyStr(S_1500)
    /\ PfType = "decimal"
    /\ pf_result.value = PyStr(S_1500)

(***************************************************************************)
(* Claims about parse_gemini_response and the core as a whole (checked     *)
(* under Spec)                                                             *)
(***************************************************************************)
\* parse_gemini_response has returned its three outputs
ParseReturned ==
    \/ pc \in {"layer2", "gate", "gated"}
    \/ pc = "raised" /\ exc.in # "parse_gemini_response"

Range(seq) == { seq[i] : i \in 1..Len(seq) }

\* C1: for every raw extraction record, parse_gemini_response, then
\* compute_layer2, then run_quality_gate complete without an exception.
C1_CoreNeverRaises == pc # "raised"

TagOfType(field_type) ==
    CASE field_type = "decimal" -> "Decimal"
      [] field_type = "int" -> "int"
      [] field_type = "float" -> "float"
      [] field_type = "date" -> "date"
      [] field_type = "bool" -> "bool"
      [] field_type = "list" -> "list"
      [] OTHER -> "str"

\* C2: every value stored in the typed field record is null or a value of
\* the field's declared type in FIELD_MAP.
C2_StoredValuesHaveDeclaredType ==
    (ParseReturned /\ raw # <<>>)
    => \A i \in 1..Len(FIELD_MAP) :
         \/ layer1[FIELD_MAP[i][1]] = None
         \/ layer1[FIELD_MAP[i][1]].t = TagOfType(FIELD_MAP[i][2])

\* C6: for every non-empty raw record, the typed field record and the
\* confidence record have the same key set, which is the set of FIELD_MAP
\* names; a key of the raw record outside the schema appears in no output.
C6_OutputKeysAreSchemaNames ==
    (ParseReturned /\ raw # <<>>)
    => /\ DOMAIN layer1 = FieldNames
       /\ DOMAIN confidence_scores = FieldNames
       /\ Range(reasoning_flags) \subseteq FieldNames
       /\ \A i \in 1..Len(raw) :
            raw[i][1] \notin FieldNames
            => /\ raw[i][1] \notin DOMAIN layer1
               /\ raw[i][1] \notin DOMAIN confidence_scores
               /\ raw[i][1] \notin Range(reasoning_flags)

C6_Witness ==
    /\ ParseReturned
    /\ Len(raw) = 2
    /\ raw[1][1] = "landlord_phone"
    /\ raw[2][1] = "monthly_rent"
    /\ DOMAIN layer1 = FieldNames
    /\ layer1["monthly_rent"] = PyDecimal(1500, 1)
    /\ layer1["property_address"] = None

\* C7: for every non-empty raw record, a schema field with no entry in it
\* gets a null typed value and confidence 0.0, and is not in the reasoning
\* flag list.
C7_AbsentFieldDefaults ==
    (ParseReturned /\ raw # <<>>)
    => \A f \in FieldNames :
         ~HasKey(raw, f)
         => /\ layer1[f] = None
            /\ confidence_scores[f] = PyFloat(0, 1)
            /\ f \notin Range(reasoning_flags)

C7_Witness ==
    /\ ParseReturned
    /\ raw # <<>>
    /\ ~HasKey(raw, "monthly_rent")
    /\ layer1["monthly_rent"] = None
    /\ confidence_scores["monthly_rent"] = PyFloat(0, 1)
    /\ reasoning_flags # <<>>

\* the flag output of parse_field for the schema field at position i
FlagOutput(i) ==
    parse_field(RawGet(raw, FIELD_MAP[i][1], DefaultRawField), FIELD_MAP[i][2]).flag

SchemaPosition(f) == CHOOSE i \in 1..Len(FIELD_MAP) : FIELD_MAP[i][1] = f

\* C8: the reasoning flag list contains a schema field name if and only if
\* parse_field's flag output for that field is true; each name appears at
\* most once, and the names are in FIELD_MAP order whatever the key order
\* of the raw record.
C8_FlagsAreFlaggedFieldsInSchemaOrder ==
    (ParseReturned /\ raw # <<>>)
    => /\ \A i \in 1..Len(FIELD_MAP) :
            FIELD_MAP[i][1] \in Range(reasoning_flags) <=> FlagOutput(i)
       /\ \A i, j \in 1..Len(reasoning_flags) :
            i < j => SchemaPosition(reasoning_flags[i]) < SchemaPosition(reasoning_flags[j])

C8_Witness ==
    /\ ParseReturned
    /\ Len(raw) = 2
    /\ raw[1][1] = "lease_end_date"
    /\ raw[2][1] = "property_address"
    /\ reasoning_flags = <<"property_address", "lease_end_date">>

(***************************************************************************)
(* Claims about compute_layer2 (checked under SpecL2)                      *)
(***************************************************************************)
\* the first call has returned its output
FirstReturned == pc \in {"l2_second", "l2_done"}

\* C3: calling compute_layer2 twice on the same typed field record yields
\* identical output, whatever happens between the two calls, the system date
\* advancing included.
C3_SecondCallSameOutput == pc = "l2_done" => layer2 = l2_first

\* a money field as a fraction <<numerator, denominator>>, null counting as zero
Money(f) == IF layer1[f] = None THEN <<0, 1>> ELSE <<layer1[f].n, layer1[f].d>>
Plus(a, b) == <<a[1] * b[2] + b[1] * a[2], a[2] * b[2]>>
Times(a, k) == <<a[1] * k, a[2]>>

\* v is the exact decimal number q
IsDecimal(v, q) == v.t = "Decimal" /\ v.n * q[2] = q[1] * v.d

\* C10: for every typed field record the output of compute_layer2 contains
\* effective_monthly_cost = rent + other fees, total_upfront_cost = rent +
\* deposit + last-month deposit + pet deposit and annualized_rent = rent * 12,
\* a null money field counting as exact zero; with all of them null the
\* three are zero.
C10_AlwaysComputedMetrics ==
    FirstReturned
    => /\ {"effective_monthly_cost", "total_upfront_cost", "annualized_rent"}
            \subseteq DOMAIN layer2
       /\ IsDecimal(layer2["effective_monthly_cost"],
                    Plus(Money("monthly_rent"), Money("other_fees_monthly")))
       /\ IsDecimal(layer2["total_upfront_cost"],
                    Plus(Plus(Plus(Money("monthly_rent"), Money("security_deposit")),
                              Money("last_month_deposit")), Money("pet_deposit")))
       /\ IsDecimal(layer2["annualized_rent"], Times(Money("monthly_rent"), 12))

C10_Witness ==
    /\ pc = "l2_done"
    /\ layer1["monthly_rent"] = PyDecimal(1500, 1)
    /\ layer1["security_deposit"] = PyDecimal(3000, 1)
    /\ layer1["last_month_deposit"] = None
    /\ layer1["pet_deposit"] = PyDecimal(25050, 100)
    /\ layer1["other_fees_monthly"] = PyDecimal(7525, 100)
    /\ layer2["effective_monthly_cost"] = PyDecimal(157525, 100)
    /\ layer2["total_upfront_cost"] = PyDecimal(475050, 100)
    /\ layer2["annualized_rent"] = PyDecimal(18000, 1)

(***************************************************************************)
(* Claims about the conditional metrics of compute_layer2 (checked under   *)
(* SpecL2)                                                                 *)
(***************************************************************************)
Produced(key) == key \in DOMAIN layer2

RentPositive == Money("monthly_rent")[1] > 0

\* the tenant count, a null or zero count counting as 1
TenantCount ==
    IF layer1["number_of_tenants"] = None \/ layer1["number_of_tenants"].n = 0
    THEN 1 ELSE layer1["number_of_tenants"].n

Over_(q, k) == <<q[1], q[2] * k>>

\* C11: rent_per_tenant, deposit_per_tenant and upfront_per_tenant are
\* produced if and only if the tenant count (null or zero counting as 1) is
\* above 1 and rent > 0; they are then rent, deposit and total_upfront_cost
\* divided by the tenant count, and none is present with a count of 1.
C11_PerTenantMetrics ==
    FirstReturned
    => /\ \A k \in {"rent_per_tenant", "deposit_per_tenant", "upfront_per_tenant"} :
            Produced(k) <=> (TenantCount > 1 /\ RentPositive)
       /\ (TenantCount > 1 /\ RentPositive)
          => /\ IsDecimal(layer2["rent_per_tenant"],
                          Over_(Money("monthly_rent"), TenantCount))
             /\ IsDecimal(layer2["deposit_per_tenant"],
                          Over_(Money("security_deposit"), TenantCount))
             /\ IsDecimal(layer2["upfront_per_tenant"],
                          Over_(<<layer2["total_upfront_cost"].n,
                                  layer2["total_upfront_cost"].d>>, TenantCount))

C11_Witness ==
    /\ FirstReturned
    /\ layer1["monthly_rent"] = PyDecimal(1500, 1)
    /\ layer1["security_deposit"] = PyDecimal(3000, 1)
    /\ layer1["last_month_deposit"] = None
    /\ layer1["pet_deposit"] = None
    /\ layer1["number_of_tenants"] = PyInt(3)
    /\ layer2["total_upfront_cost"] = PyDecimal(4500, 1)
    /\ layer2["rent_per_tenant"] = PyDecimal(500, 1)
    /\ layer2["deposit_per_tenant"] = PyDecimal(1000, 1)
    /\ layer2["upfront_per_tenant"] = PyDecimal(1500, 1)

BothDates == layer1["lease_start_date"] # None /\ layer1["lease_end_date"] # None

CalendarDays == layer1["lease_end_date"].n - layer1["lease_start_date"].n

\* m is the integer nearest to days / 30.44
NearestMonths(m, days) == 2 * Abs(100 * days - 3044 * m) <= 3044

\* C12: lease_term_days, lease_term_months and days_until_lease_end are
\* produced if and only if both lease dates are present; lease_term_days is
\* end - start in calendar days (negative when the end precedes the start),
\* lease_term_months is lease_term_days / 30.44 rounded to the nearest
\* integer, and total_liability_term = rent * lease_term_months is produced
\* only when rent > 0 as well.
C12_LeaseTermMetrics ==
    FirstReturned
    => /\ \A k \in {"lease_term_days", "lease_term_months", "days_until_lease_end"} :
            Produced(k) <=> BothDates
       /\ Produced("total_liability_term") <=> (BothDates /\ RentPositive)
       /\ BothDates
          => /\ layer2["lease_term_days"] = PyInt(CalendarDays)
             /\ layer2["lease_term_months"].t = "int"
             /\ NearestMonths(layer2["lease_term_months"].n, CalendarDays)
       /\ (BothDates /\ RentPositive)
          => IsDecimal(layer2["total_liability_term"],
                       Times(Money("monthly_rent"), layer2["lease_term_months"].n))

C12_Witness ==
    /\ FirstReturned
    /\ layer1["lease_start_date"] = Date_2025_06_08
    /\ layer1["lease_end_date"] = Date_2026_05_30
    /\ layer1["monthly_rent"] = PyDecimal(3900, 1)
    /\ layer2["lease_term_days"] = PyInt(356)
    /\ layer2["lease_term_months"] = PyInt(12)
    /\ layer2["total_liability_term"] = PyDecimal(46800, 1)

ExplicitDeadline == layer1["renewal_deadline_explicit"]
NoticeDays == layer1["renewal_notice_days_required"]

\* the renewal deadline is date dl, with the days-until value of the day on
\* which days_until_lease_end was taken
RenewalIs(dl) ==
    /\ Produced("renewal_deadline_date")
    /\ Produced("days_until_renewal_deadline")
    /\ layer2["renewal_deadline_date"] = dl
    /\ layer2["days_until_renewal_deadline"].t = "int"
    /\ layer2["days_until_renewal_deadline"].n - layer2["days_until_lease_end"].n
         = dl.n - layer1["lease_end_date"].n

\* C13: with both lease dates present, an explicit renewal deadline date is
\* used as renewal_deadline_date; otherwise, for every non-null notice-days
\* count, renewal_deadline_date = lease end - notice days, with the matching
\* days-until value; with neither present, neither key is produced.
C13_RenewalDeadlinePriority ==
    (FirstReturned /\ BothDates)
    => IF ExplicitDeadline # None THEN RenewalIs(ExplicitDeadline)
       ELSE IF NoticeDays # None
       THEN RenewalIs(PyDate(layer1["lease_end_date"].n - NoticeDays.n))
       ELSE ~Produced("renewal_deadline_date")
            /\ ~Produced("days_until_renewal_deadline")

LateAmount == layer1["late_fee_initial_amount"]
LatePct == layer1["late_fee_initial_pct"]

\* v is the float q (floats are exact fractions here)
IsFloat(v, q) == v.t = "float" /\ v.n * q[2] = q[1] * v.d

Ratio(a, b) == <<a[1] * b[2], a[2] * b[1]>>
Product(a, b) == <<a[1] * b[1], a[2] * b[2]>>
Frac(v) == <<v.n, v.d>>

\* C14: if a late-fee amount is present and rent > 0, late_fee_as_pct_rent =
\* amount / rent and there is no late_fee_dollar_equivalent; else if a
\* late-fee percentage is present, late_fee_as_pct_rent = pct / 100 and
\* late_fee_dollar_equivalent = rent * pct / 100 is produced only if
\* rent > 0; with neither present no late-fee key is produced.
C14_LateFeePriority ==
    FirstReturned
    => IF LateAmount # None /\ RentPositive
       THEN /\ Produced("late_fee_as_pct_rent")
            /\ IsFloat(layer2["late_fee_as_pct_rent"],
                       Ratio(Frac(LateAmount), Money("monthly_rent")))
            /\ ~Produced("late_fee_dollar_equivalent")
       ELSE IF LatePct # None
       THEN /\ Produced("late_fee_as_pct_rent")
            /\ IsFloat(layer2["late_fee_as_pct_rent"], Over_(Frac(LatePct), 100))
            /\ Produced("late_fee_dollar_equivalent") <=> RentPositive
            /\ RentPositive
               => IsDecimal(layer2["late_fee_dollar_equivalent"],
                            Product(Money("monthly_rent"), Over_(Frac(LatePct), 100)))
       ELSE ~Produced("late_fee_as_pct_rent")
            /\ ~Produced("late_fee_dollar_equivalent")

HoldoverAmount == layer1["holdover_rent_amount"]

Minus(a, b) == <<a[1] * b[2] - b[1] * a[2], a[2] * b[2]>>

\* C15: holdover_rent_increase and holdover_rent_increase_pct are produced
\* if and only if a holdover rent amount is present and rent > 0; they are
\* then holdover - rent and that difference / rent, negative when the
\* holdover amount is below the rent.
C15_HoldoverMetrics ==
    FirstReturned
    => /\ \A k \in {"holdover_rent_increase", "holdover_rent_increase_pct"} :
            Produced(k) <=> (HoldoverAmount # None /\ RentPositive)
       /\ (HoldoverAmount # None /\ RentPositive)
          => /\ IsDecimal(layer2["holdover_rent_increase"],
                          Minus(Frac(HoldoverAmount), Money("monthly_rent")))
             /\ IsFloat(layer2["holdover_rent_increase_pct"],
                        Ratio(Minus(Frac(HoldoverAmount), Money("monthly_rent")),
                              Money("monthly_rent")))

SquareFootage == layer1["square_footage"]

EffectiveCost == Plus(Money("monthly_rent"), Money("other_fees_monthly"))

\* C16: implied_cost_per_sqft_monthly is in the output if and only if square
\* footage is present and > 0 and effective_monthly_cost > 0; never with a
\* null, zero or negative square footage.
C16_CostPerSqftGuard ==
    FirstReturned
    => /\ Produced("implied_cost_per_sqft_monthly")
          <=> (SquareFootage # None /\ SquareFootage.n > 0 /\ EffectiveCost[1] > 0)
       /\ Produced("implied_cost_per_sqft_monthly")
          => IsFloat(layer2["implied_cost_per_sqft_monthly"],
                     Ratio(EffectiveCost, Frac(SquareFootage)))

C16_Witness ==
    /\ FirstReturned
    /\ layer1["monthly_rent"] = PyDecimal(1500, 1)
    /\ layer1["other_fees_monthly"] = PyDecimal(7525, 100)
    /\ SquareFootage = PyFloat(850, 1)
    /\ layer2["effective_monthly_cost"] = PyDecimal(157525, 100)
    /\ layer2["implied_cost_per_sqft_monthly"] = PyFloat(157525, 85000)

Absent_(keys) == \A k \in keys : ~Produced(k)

\* every conditional metric whose precondition fails is absent
AbsentWhenNotComputable ==
    /\ ~(TenantCount > 1 /\ RentPositive)
       => Absent_({"rent_per_tenant", "deposit_per_tenant", "upfront_per_tenant"})
    /\ ~BothDates
       => Absent_({"lease_term_days", "lease_term_months", "total_liability_term",
                   "days_until_lease_end", "renewal_deadline_date",
                   "days_until_renewal_deadline"})
    /\ ~RentPositive => Absent_({"total_liability_term", "late_fee_dollar_equivalent"})
    /\ (ExplicitDeadline = None /\ NoticeDays = None)
       => Absent_({"renewal_deadline_date", "days_until_renewal_deadline"})
    /\ ~(SquareFootage # None /\ SquareFootage.n > 0 /\ EffectiveCost[1] > 0)
       => Absent_({"implied_cost_per_sqft_monthly"})
    /\ ~(Money("security_deposit")[1] > 0 /\ RentPositive)
       => Absent_({"deposit_as_months_rent"})
    /\ (LateAmount = None /\ LatePct = None)
       => Absent_({"late_fee_as_pct_rent", "late_fee_dollar_equivalent"})
    /\ ~(HoldoverAmount # None /\ RentPositive)
       => Absent_({"holdover_rent_increase", "holdover_rent_increase_pct"})

\* C17: for every typed record of well-typed values (zero, negative and null
\* rent, deposit, tenant count, square footage, notice days and fees
\* included) compute_layer2 never raises, and every conditional metric whose
\* precondition fails is absent from the output.
C17_NeverRaisesAbsentNotZero ==
    /\ exc.in # "compute_layer2"
    /\ FirstReturned => AbsentWhenNotComputable

(***************************************************************************)
(* Claims about run_quality_gate (checked under SpecGate)                  *)
(***************************************************************************)
Gated == pc = "gated"

ReasonsOf(text) == SelectSeq(reasons, LAMBDA r : r.text = text)

NullOrFalsy(v) ==
    \/ v = None
    \/ v.t = "str" /\ v.s = <<>>
    \/ IsNumber(v) /\ v.n = 0

TheCriticalFields ==
    {"monthly_rent", "lease_start_date", "lease_end_date", "property_address"}

MissingNames == { f \in TheCriticalFields : NullOrFalsy(layer1[f]) }

\* the reason names exactly the fields of the set, each once
NamesExactly(reason, fields) ==
    /\ Range(reason.names) = fields
    /\ Len(reason.names) = Cardinality(fields)

\* C18: whenever at least one critical field is null or falsy,
\* requires_review is true and there is exactly one 'Missing critical
\* fields' reason, naming every such critical field and no other field.
C18_MissingCriticalReason ==
    (Gated /\ MissingNames # {})
    => /\ requires_review
       /\ Len(ReasonsOf("Missing critical fields: ")) = 1
       /\ NamesExactly(ReasonsOf("Missing critical fields: ")[1], MissingNames)

C18_Witness ==
    /\ Gated
    /\ layer1["property_address"] = None
    /\ layer1["monthly_rent"] = PyDecimal(1500, 1)
    /\ layer1["lease_start_date"] = Date_2025_06_08
    /\ layer1["lease_end_date"] = Date_2026_05_30
    /\ \A f \in TheCriticalFields : confidence_scores[f] = PyFloat(95, 100)
    /\ requires_review
    /\ reasons = <<Reason("Missing critical fields: ", <<"property_address">>, None)>>

\* strictly below the default threshold 0.70
BelowThreshold(v) == v.n * 100 < 70 * v.d

LowNames ==
    { f \in TheCriticalFields :
        f \in DOMAIN confidence_scores /\ BelowThreshold(confidence_scores[f]) }

\* C19: there is a 'Low confidence on critical fields' reason, with
\* requires_review true, if and only if some critical field has a confidence
\* strictly below 0.70; it lists exactly those critical fields, so a
\* confidence equal to the threshold and a field that is not critical never
\* appear in it.
C19_LowConfidenceReason ==
    Gated
    => /\ Len(ReasonsOf("Low confidence on critical fields: "))
            = (IF LowNames # {} THEN 1 ELSE 0)
       /\ LowNames # {}
          => /\ requires_review
             /\ NamesExactly(ReasonsOf("Low confidence on critical fields: ")[1], LowNames)

C19_Witness ==
    /\ Gated
    /\ confidence_scores["property_address"] = PyFloat(70, 100)
    /\ confidence_scores["monthly_rent"] = PyFloat(69, 100)
    /\ confidence_scores["lease_end_date"] = PyFloat(95, 100)
    /\ confidence_scores["tenant_full_name"] = PyFloat(1, 10)
    /\ ReasonsOf("Low confidence on critical fields: ")
         = <<Reason("Low confidence on critical fields: ", <<"monthly_rent">>, None)>>

RentValue == layer1["monthly_rent"]

Implausible(v) == v.n < 50 * v.d \/ v.n > 100000 * v.d

\* C20: there is an 'Unusual rent amount' reason citing the value, with
\* requires_review true, if and only if rent is present (non-null) and
\* rent < 50 or rent > 100000; 0 and negative rents are covered, 50 and
\* 100000 are not.
C20_UnusualRentReason ==
    Gated
    => /\ Len(ReasonsOf("Unusual rent amount: $"))
            = (IF RentValue # None /\ Implausible(RentValue) THEN 1 ELSE 0)
       /\ (RentValue # None /\ Implausible(RentValue))
          => /\ requires_review
             /\ ReasonsOf("Unusual rent amount: $")[1].value = RentValue


TextsOf(why) == [i \in 1..Len(why) |-> why[i].text]

\* the reasons the three checks call for, each check on its own
ExpectedTexts ==
    (IF MissingNames # {} THEN <<"Missing critical fields: ">> ELSE <<>>)
    \o (IF LowNames # {} THEN <<"Low confidence on critical fields: ">> ELSE <<>>)
    \o (IF RentValue # None /\ Implausible(RentValue)
        THEN <<"Unusual rent amount: $">> ELSE <<>>)

\* C21: the three checks are evaluated independently: each check whose
\* condition holds (a critical field null or falsy; a critical confidence
\* below the threshold; a rent that is present and below 50 or above 100000)
\* contributes exactly one reason, and the reasons appear in check order.
C21_ChecksIndependentInOrder == Gated => TextsOf(reasons) = ExpectedTexts

\* the record has nothing for the gate to report
NothingToReport ==
    /\ MissingNames = {}
    /\ LowNames = {}
    /\ ~Implausible(RentValue)

C29_GateDeterministic ==
    Gated => /\ requires_review = gate_first.requires_review
             /\ reasons = gate_first.reasons

(***************************************************************************)
(* Claims about analyze_lease (checked under SpecAnalyze, and under        *)
(* SpecAnalyzeLive where the claim says that something does happen)        *)
(***************************************************************************)
Responded == pc = "responded"
Succeeded == Responded /\ response.status = 200

Count(step) == Cardinality({ i \in 1..Len(steps) : steps[i] = step })
IsPrefix(s, t) == Len(s) <= Len(t) /\ s = SubSeq(t, 1, Len(s))

\* the result but for its two review annotations
ResultCarries(res) ==
    /\ res.built
    /\ res.layer1 = JsonDict(layer1)
    /\ res.layer2 = JsonDict(layer2)
    /\ res.layer3_flags
         = (IF ClaudeTruthy(claude_output)
            THEN Get(claude_output.d, "flags", EmptyList) ELSE EmptyList)
    /\ res.layer4 = Layer4(claude_output)
    /\ res.confidence_scores = confidence_scores
    /\ res.reasoning_flags = reasoning_flags
    /\ res.pdf_base64 = PdfBase64(pdf_report)

Annotated(res) ==
    /\ res.requires_human_review = requires_review
    /\ res.human_review_reasons = reasons

GateOutcomeOnlyAnnotates ==
    /\ pc = "gated" => ENABLED CallClaude
    /\ result.built => ResultCarries(result) /\ Annotated(result)
    /\ Succeeded
       => /\ response.content = result
          /\ claude_args.called /\ pdf_args.called

\* C22: whenever the quality gate has run, the reasoning call, the report
\* rendering and the response follow, whether requires_review is true or
\* false, and the gate's outcome shows in the result only as
\* requires_human_review and human_review_reasons.
C22_GateNeverBlocks ==
    /\ []GateOutcomeOnlyAnnotates
    /\ (pc = "gated") ~> Succeeded

C22_Witness ==
    /\ Succeeded
    /\ requires_review /\ Len(reasons) = 2
    /\ claude_args.called /\ pdf_args.called
    /\ response.content.requires_human_review
    /\ response.content.layer1 = JsonDict(layer1)

\* C23: when the extraction collaborator returns null, the response is an
\* error with status 500, none of parsing, derived metrics, quality gate,
\* reasoning call, report rendering and persistence is executed, and the
\* extraction call is made once.
C23_NullExtractionIsHardFailure ==
    /\ Count("call_gemini_with_text") <= 1
    /\ raw_gemini = "None"
       => /\ Responded
          /\ response.status = 500 /\ response.error
          /\ steps = <<"extract_text_from_pdf", "call_gemini_with_text">>
          /\ layer1 = EmptyDict /\ layer2 = EmptyDict /\ reasons = <<>>
          /\ ~claude_args.called /\ ~pdf_args.called /\ ~result.built
          /\ tasks = <<>> /\ db = "none"

C23_Witness ==
    /\ raw_gemini = "None"
    /\ Responded
    /\ response = ExtractionFailed
    /\ Len(steps) = 2

EmptyExtraction == raw_gemini = "dict" /\ raw = <<>>

\* C24: when the raw extraction record is empty, parse_gemini_response
\* returns three empty structures without raising, and the handler treats
\* the case as a hard failure: no derived metrics, quality gate result,
\* reasoning call or report is produced.
C24_EmptyExtractionIsHardFailure ==
    EmptyExtraction
    => /\ pc # "raised"
       /\ layer1 = EmptyDict /\ confidence_scores = EmptyDict
       /\ reasoning_flags = <<>>
       /\ Count("compute_layer2") = 0 /\ Count("run_quality_gate") = 0
       /\ ~claude_args.called /\ ~pdf_args.called
       /\ Responded => response.error

InsertNeverFailsRequest ==
    /\ tasks # <<>>
       => /\ result.built /\ pc \in {"respond", "responded"}
          /\ tasks = <<InsertTask(layer1, layer2, requires_review)>>
          /\ supabase_url
    /\ db # "none" => Succeeded
    /\ Succeeded
       => /\ response.content = result
          /\ ResultCarries(result) /\ Annotated(result)

\* C25: a failure of the insert never fails the request: the task is
\* scheduled only once the result is built, running it (to success or to
\* failure) leaves the response as it was, and the response is made of the
\* typed, derived and reasoning records alone, whether or not an insert was
\* scheduled.
C25_PersistenceFireAndForget ==
    /\ []InsertNeverFailsRequest
    /\ [][db' # db => response' = response /\ pc' = pc]_vars

C25_Witness ==
    /\ db = "failed"
    /\ Succeeded
    /\ response.content = result
    /\ tasks # <<>>

StepsDone ==
    IF supabase_url THEN STEP_ORDER ELSE SubSeq(STEP_ORDER, 1, Len(STEP_ORDER) - 1)

\* C26: the steps of a request start in the fixed order text extraction,
\* extraction call, parsing, derived metrics, quality gate, reasoning call,
\* report rendering, persistence scheduling, each at most once; none starts
\* while an awaited call is outstanding; a successful request has run them
\* all (the scheduling when persistence is configured).
C26_StepsInFixedOrder ==
    /\ [](/\ IsPrefix(steps, STEP_ORDER)
          /\ \A i \in 1..Len(STEP_ORDER) : Count(STEP_ORDER[i]) <= 1
          /\ Succeeded => steps = StepsDone)
    /\ [][steps' # steps => pc \notin {"gemini_wait", "claude_wait"}]_vars

C26_Witness ==
    /\ Succeeded
    /\ steps = STEP_ORDER
    /\ db = "inserted"

ParsedRecord == parse_gemini_response(raw).layer1
DerivedRecord == compute_layer2(ParsedRecord, today).l2

RecordsAsProduced ==
    /\ pc \notin {"extract_text", "gemini", "gemini_wait", "parse", "raised"}
       /\ raw_gemini = "dict"
       => layer1 = ParsedRecord
    /\ claude_args.called
       => /\ claude_args.layer1 = ParsedRecord
          /\ claude_args.layer2 = DerivedRecord
          /\ layer2 = DerivedRecord
    /\ pdf_args.called
       => pdf_args.layer1 = ParsedRecord /\ pdf_args.layer2 = DerivedRecord
    /\ \A i \in 1..Len(tasks) :
         tasks[i].layer1 = ParsedRecord /\ tasks[i].layer2 = DerivedRecord

\* C27: compute_layer2 leaves the typed record unchanged, run_quality_gate
\* leaves the typed record, the confidence record and the flag list
\* unchanged, parse_gemini_response leaves the raw record unchanged, and the
\* records given to the reasoning call, the report renderer and the insert
\* are the ones parsing and derivation produced.
C27_RecordsNotMutated ==
    /\ []RecordsAsProduced
    /\ [][/\ pc = "parse" => raw' = raw
          /\ pc = "layer2" => layer1' = layer1
          /\ pc = "gate" => /\ layer1' = layer1
                            /\ confidence_scores' = confidence_scores
                            /\ reasoning_flags' = reasoning_flags
          /\ pc \in {"gated", "claude_wait", "pdf", "result", "schedule",
                     "respond", "responded"}
             => layer1' = layer1 /\ layer2' = layer2]_vars

C27_Witness ==
    /\ Succeeded
    /\ raw = R_full
    /\ layer1 = ParsedRecord /\ layer2 = DerivedRecord
    /\ claude_args.layer1 = layer1 /\ pdf_args.layer2 = layer2
    /\ tasks # <<>> /\ tasks[1].layer1 = layer1

ReasoningFailed == claude_output = NoOutput

RISK_SCORES ==
    { "overall_lease_risk_score", "renewal_risk_score", "financial_burden_score",
      "landlord_access_risk_score", "termination_risk_score", "liability_risk_score" }

ReasoningFailureIsTolerated ==
    ReasoningFailed
    => /\ pc # "raised"
       /\ pc \in {"result", "schedule", "respond", "responded"} => pdf_args.called
       /\ pc \in {"respond", "responded"} /\ supabase_url => tasks # <<>>
       /\ Responded
          => /\ response.status = 200 /\ ~response.error
             /\ response.content.layer1 = JsonDict(layer1)
             /\ response.content.layer2 = JsonDict(layer2)
             /\ response.content.requires_human_review = requires_review
             /\ response.content.human_review_reasons = reasons
             /\ response.content.layer3_flags = EmptyList
             /\ \A k \in RISK_SCORES : response.content.layer4[k] = None

\* C30: when the reasoning collaborator returns null after a successful
\* extraction, the report is still rendered, the insert is still scheduled
\* when configured, and the response (status 200) carries the typed fields,
\* derived metrics and gate result with an empty risk-flag list and null
\* risk scores; the request always reaches that response.
C30_ReasoningFailureTolerated ==
    /\ []ReasoningFailureIsTolerated
    /\ ReasoningFailed ~> (Succeeded /\ ReasoningFailed)

C30_Witness ==
    /\ ReasoningFailed
    /\ Succeeded
    /\ response.content.layer3_flags = EmptyList
    /\ response.content.layer4["overall_lease_risk_score"] = None
    /\ raw = R_full
    /\ response.content.layer1["monthly_rent"] = [PyDecimal(1500, 1) EXCEPT !.t = "decimal_str"]
    /\ tasks # <<>>
====
